---- MODULE Spec2Model ----
(***************************************************************************)
(* A model of the Bedrock agent evaluation helpers:                        *)
(*   helpers/tool_usage_extractor.py      ToolUsageExtractor               *)
(*   helpers/deepeval_helper.py           DeepevalHelper                   *)
(*   evaluators/agents/*_evaluator.py     invoke_agent,                    *)
(*                                        _convert_trace_to_messages       *)
(*                                                                         *)
(* Python values are tagged records [t, v]: t is the Python type and v the *)
(* content.  A str is a sequence of tokens (the token "/" is the slash), a *)
(* dict is a function from its keys to values, a list is a sequence.       *)
(***************************************************************************)
EXTENDS Integers, Sequences, FiniteSets, TLC

VARIABLES
    \* ToolUsageExtractor.extract_from_trace
    trace_events,   \* the events consumed so far
    result,         \* the report being built
    logged,         \* indexes of the events whose error was printed
    status,         \* "running", "returned" or "raised"
    \* DeepevalHelper, one conversion
    adapter,        \* "idle", "ground_truth" or "bedrock": the conversion called
    tool_calls,     \* the input records consumed so far
    deepeval_tool_calls,    \* the list being built
    adapter_status, \* "idle", "running", "returned" or "raised"
    \* invoke_agent of the two evaluators, one top-level call
    evaluator,      \* "none", "tool_correctness" or "topic_adherence"
    pc,             \* "idle", "invoking", "streaming", "sleeping", "returned", "raised"
    tries,          \* the argument of the current frame
    attempts,       \* how each remote call so far ended ("running" for the current one)
    consumed,       \* events read from the current completion stream
    agent_answer,   \* locals of the current frame
    input_tokens,
    output_tokens,
    full_trace,
    wait_time,      \* the last time.sleep argument
    raised,         \* the exception raised to the caller
    processed_response,     \* the dict returned to the caller
    stream,         \* the events the current completion stream has given
    discarded,      \* the events read by attempts that ended in an exception
    \* TopicAdherenceEvaluator._convert_trace_to_messages, one call
    convert_status, \* "idle", "running", "returned" or "raised"
    convert_trace,  \* the elements of full_trace consumed so far
    convert_answer, \* the agent_answer argument
    messages,       \* the list being built
    \* evaluate_response of the two evaluators, one call
    metric,         \* "none", "topic adherence" or "tool correctness"
    eval_pc,        \* "idle", the next block of the try body, "returned", "raised"
    metadata,       \* the argument
    ground_truth,   \* self.ground_truth
    eval_locals,    \* the locals of the call
    eval_steps,     \* the collaborators called so far, in order
    caught,         \* the exception the except clause caught
    eval_raised,    \* the exception raised to the caller
    eval_result,    \* the dict returned to the caller
    \* two extract_from_trace calls on one ToolUsageExtractor
    heap,           \* the report objects created so far
    call_ref,       \* per call, its `result`: an index of heap, 0 before the call
    call_events,    \* per call, the events consumed so far
    call_status,    \* per call, "idle", "running" or "returned"
    \* ToolUsageExtractor.extract_from_response, one call
    response_pc,    \* "idle", "filtering", "returned" or "raised"
    completion,     \* the completion events consumed so far
    projected,      \* the local trace_events
    response_result \* the report returned

extractVars == <<trace_events, result, logged, status>>
adapterVars == <<adapter, tool_calls, deepeval_tool_calls, adapter_status>>
invokeVars ==
    <<evaluator, pc, tries, attempts, consumed, agent_answer, input_tokens,
      output_tokens, full_trace, wait_time, raised, processed_response,
      stream, discarded>>
convertVars == <<convert_status, convert_trace, convert_answer, messages>>
evalVars ==
    <<metric, eval_pc, metadata, ground_truth, eval_locals, eval_steps, caught,
      eval_raised, eval_result>>
callVars == <<heap, call_ref, call_events, call_status>>
responseVars == <<response_pc, completion, projected, response_result>>
vars ==
    <<extractVars, adapterVars, invokeVars, convertVars, evalVars, callVars,
      responseVars>>
notExtractVars ==
    <<adapterVars, invokeVars, convertVars, evalVars, callVars, responseVars>>
notAdapterVars ==
    <<extractVars, invokeVars, convertVars, evalVars, callVars, responseVars>>
notInvokeVars ==
    <<extractVars, adapterVars, convertVars, evalVars, callVars, responseVars>>
notConvertVars ==
    <<extractVars, adapterVars, invokeVars, evalVars, callVars, responseVars>>
notEvalVars ==
    <<extractVars, adapterVars, invokeVars, convertVars, callVars, responseVars>>
notCallVars ==
    <<extractVars, adapterVars, invokeVars, convertVars, evalVars, responseVars>>
notResponseVars ==
    <<extractVars, adapterVars, invokeVars, convertVars, evalVars, callVars>>

(***************************************************************************)
(* Bounds of the model.                                                    *)
(***************************************************************************)
MaxEvents == 2      \* events of one extract_from_trace call
MaxSegments == 3    \* segments of an agentAliasArn
MaxCalls == 3       \* records given to one conversion
MaxStream == 3      \* events of one completion stream

(***************************************************************************)
(* Python values.                                                          *)
(***************************************************************************)
PyNone == [t |-> "None", v |-> <<>>]
PyStr(s) == [t |-> "str", v |-> s]
PyList(xs) == [t |-> "list", v |-> xs]
PyDict(f) == [t |-> "dict", v |-> f]
PyInt(n) == [t |-> "int", v |-> n]
PyBytes(s) == [t |-> "bytes", v |-> s]

\* A dict with no key.
NoKeys == <<>>

\* `key in x`: a dict looks among its keys, a list among its elements, a
\* str looks for a substring; any other value raises TypeError.
CanContain(x) == x.t \in {"dict", "list", "str"}

PyIn(key, x) ==
    CASE x.t = "dict" -> key \in DOMAIN x.v
      [] x.t = "list" -> \E i \in 1..Len(x.v) : x.v[i] = PyStr(<<key>>)
      [] x.t = "str" -> \E i \in 1..Len(x.v) : x.v[i] = key
      [] OTHER -> FALSE

\* x.get(key, default) of a dict x.
PyGet(x, key, default) == IF key \in DOMAIN x.v THEN x.v[key] ELSE default

\* hash(x) succeeds: a list or a dict is unhashable.
Hashable(x) == x.t \notin {"list", "dict"}

\* The text an f-string or str() puts for x; the text of a container is
\* kept as its type between angle brackets.
Format(x) ==
    CASE x.t = "str" -> x.v
      [] x.t = "int" -> <<ToString(x.v)>>
      [] x.t = "None" -> <<"None">>
      [] OTHER -> <<"<", x.t, ">">>

\* s.split("/"): the segments between the slashes, at least one.
RECURSIVE SplitFrom(_, _, _)
SplitFrom(s, i, cur) ==
    IF i > Len(s) THEN <<cur>>
    ELSE IF s[i] = "/" THEN <<cur>> \o SplitFrom(s, i + 1, <<>>)
    ELSE SplitFrom(s, i + 1, Append(cur, s[i]))

Split(s) == SplitFrom(s, 1, <<>>)

(***************************************************************************)
(* ToolUsageExtractor.extract_from_trace.  The body of the loop works on a *)
(* record [agents, tool_calls, exc]: exc is "none" or the exception that   *)
(* left the try block, and what was changed before it stays changed.       *)
(***************************************************************************)
EmptyResult == [agents |-> <<>>, tool_calls |-> <<>>]

Raise(r, kind) == [r EXCEPT !.exc = kind]

AgentRecord(agent_id, agent_alias_id, agent_name) ==
    [agent_id |-> agent_id, agent_alias_id |-> agent_alias_id,
     agent_name |-> agent_name, tool_calls |-> <<>>]

\* if agent_id not in result["agents"]: result["agents"][agent_id] = rec
CreateIfAbsent_Overwrite(r, agent_id, rec) ==
    [r EXCEPT !.agents = (agent_id :> rec) @@ r.agents]

CreateIfAbsent(r, agent_id, rec) ==
    IF agent_id \in DOMAIN r.agents THEN r
    ELSE [r EXCEPT !.agents = r.agents @@ (agent_id :> rec)]

\* Lines 25-38: the event's own agentId.
DirectIdentity(r, e) ==
    IF ~CanContain(e) THEN Raise(r, "TypeError")
    ELSE IF ~PyIn("agentId", e) THEN r
    ELSE IF e.t # "dict" THEN Raise(r, "TypeError")
    ELSE LET agent_id == e.v["agentId"]
             agent_alias_id == PyGet(e, "agentAliasId", PyStr(<<>>))
             agent_name == PyGet(e, "collaboratorName",
                                 PyStr(<<"Agent-">> \o Format(agent_id)))
         IN  IF ~Hashable(agent_id) THEN Raise(r, "TypeError")
             ELSE CreateIfAbsent(r, agent_id,
                      AgentRecord(agent_id, agent_alias_id, agent_name))

\* Lines 44-56: one entry of the caller chain.
CallerAgent_LastSegment(r, arn_parts) ==
    LET n == Len(arn_parts)
        caller_agent_id == PyStr(arn_parts[n])
    IN  CreateIfAbsent(r, caller_agent_id,
            AgentRecord(caller_agent_id,
                        IF n > 2 THEN PyStr(arn_parts[n]) ELSE PyStr(<<>>),
                        PyStr(<<"Agent-">> \o arn_parts[n])))

CallerAgent(r, arn_parts) ==
    LET n == Len(arn_parts)
        caller_agent_id == PyStr(arn_parts[n - 1])
    IN  CreateIfAbsent(r, caller_agent_id,
            AgentRecord(caller_agent_id,
                        IF n > 2 THEN PyStr(arn_parts[n]) ELSE PyStr(<<>>),
                        PyStr(<<"Agent-">> \o arn_parts[n - 1])))

Caller(r, caller) ==
    IF ~CanContain(caller) THEN Raise(r, "TypeError")
    ELSE IF ~PyIn("agentAliasArn", caller) THEN r
    ELSE IF caller.t # "dict" THEN Raise(r, "TypeError")
    ELSE LET arn == caller.v["agentAliasArn"]
         IN  IF arn.t # "str" THEN Raise(r, "AttributeError")
             ELSE LET arn_parts == Split(arn.v)
                  IN  IF Len(arn_parts) >= 2 THEN CallerAgent(r, arn_parts)
                      ELSE r

RECURSIVE CallerLoop(_, _, _)
CallerLoop(r, callers, i) ==
    IF i > Len(callers) THEN r
    ELSE LET r2 == Caller(r, callers[i])
         IN  IF r2.exc # "none" THEN r2 ELSE CallerLoop(r2, callers, i + 1)

\* What `for caller in caller_chain` yields: the elements of a list, the
\* single characters of a str (written "c": one character holds no key),
\* the keys of a dict (a key is a str, which raises when it is the key
\* looked for and changes nothing otherwise, so only that key is kept).
Elements(x) ==
    CASE x.t = "list" -> x.v
      [] x.t = "str" -> [i \in 1..Len(x.v) |-> PyStr(<<"c">>)]
      [] x.t = "dict" ->
            IF "agentAliasArn" \in DOMAIN x.v THEN <<PyStr(<<"agentAliasArn">>)>>
            ELSE <<>>
      [] OTHER -> <<>>

\* Lines 41-56: the caller chain.
CallerChainIdentity(r, e) ==
    IF ~PyIn("callerChain", e) THEN r
    ELSE IF e.t # "dict" THEN Raise(r, "TypeError")
    ELSE LET caller_chain == e.v["callerChain"]
         IN  IF ~CanContain(caller_chain) THEN Raise(r, "TypeError")
             ELSE CallerLoop(r, Elements(caller_chain), 1)

\* `key in x` followed by x[key]: the value, its absence, or the exception.
Lookup(x, key) ==
    IF ~CanContain(x) THEN [st |-> "raise", val |-> PyNone]
    ELSE IF ~PyIn(key, x) THEN [st |-> "absent", val |-> PyNone]
    ELSE IF x.t # "dict" THEN [st |-> "raise", val |-> PyNone]
    ELSE [st |-> "found", val |-> x.v[key]]

\* Lines 72-80: the two shapes of an actionGroupInvocationInput.  `function`
\* is looked for first; with neither key the event is left (continue).
\* (ToolShape_ElseIsPath: the else branch taken for the path shape.)
ToolShape_ElseIsPath(action_group_input) ==
    IF PyIn("function", action_group_input) THEN "function" ELSE "apiPath"

ToolShape(action_group_input) ==
    IF PyIn("function", action_group_input) THEN "function"
    ELSE IF PyIn("apiPath", action_group_input) THEN "apiPath"
    ELSE "neither"

ToolName(action_group_input, shape) ==
    PyGet(action_group_input, shape, PyNone)

Parameters_Swapped(action_group_input, shape) ==
    IF shape = "function"
    THEN PyGet(action_group_input, "requestBody", PyDict(NoKeys))
    ELSE PyGet(action_group_input, "parameters", PyDict(NoKeys))

Parameters(action_group_input, shape) ==
    IF shape = "function"
    THEN PyGet(action_group_input, "parameters", PyDict(NoKeys))
    ELSE PyGet(action_group_input, "requestBody", PyDict(NoKeys))

Unknown == PyStr(<<"unknown">>)

\* Lines 82-87.
ToolCall(e, action_group_input, shape) ==
    [agent_id |-> PyGet(e, "agentId", Unknown),
     tool_name |-> ToolName(action_group_input, shape),
     parameters |-> Parameters(action_group_input, shape),
     timestamp |-> PyGet(e, "timestamp", PyStr(<<>>))]

AgentToolCall(tool_call) ==
    [tool_name |-> tool_call.tool_name, parameters |-> tool_call.parameters,
     timestamp |-> tool_call.timestamp]

\* Lines 89-100: the flat list always, the agent's own list when the agent
\* is known.
Record_Prepend(r, tool_call) ==
    LET flat == [r EXCEPT !.tool_calls = <<tool_call>> \o r.tool_calls]
    IN  IF ~Hashable(tool_call.agent_id) THEN Raise(flat, "TypeError")
        ELSE IF tool_call.agent_id \in DOMAIN r.agents
        THEN [flat EXCEPT !.agents[tool_call.agent_id].tool_calls =
                              <<AgentToolCall(tool_call)>> \o @]
        ELSE flat

\* The per-agent append left out.
Record_FlatOnly(r, tool_call) ==
    LET flat == [r EXCEPT !.tool_calls = Append(r.tool_calls, tool_call)]
    IN  IF ~Hashable(tool_call.agent_id) THEN Raise(flat, "TypeError")
        ELSE flat

Record(r, tool_call) ==
    LET flat == [r EXCEPT !.tool_calls = Append(r.tool_calls, tool_call)]
    IN  IF ~Hashable(tool_call.agent_id) THEN Raise(flat, "TypeError")
        ELSE IF tool_call.agent_id \in DOMAIN r.agents
        THEN [flat EXCEPT !.agents[tool_call.agent_id].tool_calls =
                              Append(@, AgentToolCall(tool_call))]
        ELSE flat

\* Lines 58-100: the tool call of the event, if it has one.
ToolCallExtraction(r, e) ==
    LET trace == Lookup(e, "trace")
        orchestration_trace ==
            IF trace.st = "found" THEN Lookup(trace.val, "orchestrationTrace")
            ELSE trace
        invocation_input ==
            IF orchestration_trace.st = "found"
            THEN Lookup(orchestration_trace.val, "invocationInput")
            ELSE orchestration_trace
        action_group_input ==
            IF invocation_input.st = "found"
            THEN Lookup(invocation_input.val, "actionGroupInvocationInput")
            ELSE invocation_input
    IN  IF action_group_input.st = "raise" THEN Raise(r, "TypeError")
        ELSE IF action_group_input.st = "absent" THEN r
        ELSE LET a == action_group_input.val
             IN  IF ~CanContain(a) THEN Raise(r, "TypeError")
                 ELSE IF ToolShape(a) = "neither" THEN r
                 ELSE IF a.t # "dict" THEN Raise(r, "AttributeError")
                 ELSE Record(r, ToolCall(e, a, ToolShape(a)))

\* Lines 24-100: the try block, its three steps in order; a step that raises
\* ends the block.
TryBody_ToolCallFirst(res, e) ==
    LET r0 == [agents |-> res.agents, tool_calls |-> res.tool_calls, exc |-> "none"]
        r1 == IF ~CanContain(e) THEN Raise(r0, "TypeError")
              ELSE ToolCallExtraction(r0, e)
        r2 == IF r1.exc # "none" THEN r1 ELSE DirectIdentity(r1, e)
    IN  IF r2.exc # "none" THEN r2 ELSE CallerChainIdentity(r2, e)

TryBody(res, e) ==
    LET r0 == [agents |-> res.agents, tool_calls |-> res.tool_calls, exc |-> "none"]
        r1 == DirectIdentity(r0, e)
        r2 == IF r1.exc # "none" THEN r1 ELSE CallerChainIdentity(r1, e)
    IN  IF r2.exc # "none" THEN r2 ELSE ToolCallExtraction(r2, e)

\* Line 101: `except Exception` catches every exception the body raises.
Caught_KeyErrorOnly(kind) == kind = "KeyError"

Caught(kind) == kind \in {"TypeError", "AttributeError", "KeyError"}

(***************************************************************************)
(* The trace events the model draws from: every combination of an identity *)
(* part, a caller chain part and an invocation part, and two values that   *)
(* are no mappings.                                                        *)
(***************************************************************************)
AgentA == PyStr(<<"A">>)
AgentB == PyStr(<<"B">>)

IdentityParts ==
    { NoKeys,
      "agentId" :> AgentA,
      ("agentId" :> AgentA) @@ ("agentAliasId" :> PyStr(<<"al1">>))
          @@ ("collaboratorName" :> PyStr(<<"Bob">>)),
      "agentId" :> PyList(<<>>) }

CallerChain(arn) == PyList(<<PyDict("agentAliasArn" :> arn)>>)

ChainParts ==
    { NoKeys,
      "callerChain" :> CallerChain(PyStr(<<"arn", "/", "A", "/", "al2">>)),
      "callerChain" :> CallerChain(PyStr(<<"arn", "/", "B", "/", "al3">>)),
      "callerChain" :> PyList(<<PyNone>>) }

FunctionInput ==
    PyDict(("function" :> PyStr(<<"search">>))
           @@ ("parameters" :> PyDict("q" :> PyStr(<<"x">>))))

PathInput ==
    PyDict(("apiPath" :> PyStr(<<"/", "orders">>))
           @@ ("requestBody" :> PyDict("content" :> PyStr(<<"y">>))))

NeitherInput == PyDict("actionGroupName" :> PyStr(<<"g">>))

Invocation(action_group_input) ==
    "trace" :> PyDict("orchestrationTrace" :> PyDict("invocationInput" :>
        PyDict("actionGroupInvocationInput" :> action_group_input)))

InvocationParts ==
    { NoKeys,
      Invocation(FunctionInput),
      Invocation(PathInput),
      Invocation(NeitherInput),
      Invocation(PyNone) }

Events ==
    { PyDict(i @@ c @@ t) : i \in IdentityParts, c \in ChainParts,
                            t \in InvocationParts }
    \cup { PyNone, PyStr(<<"trace">>) }

(***************************************************************************)
(* extract_from_trace as a state machine: one step per event of the loop,  *)
(* and the return.                                                         *)
(***************************************************************************)
ExtractInit ==
    /\ trace_events = <<>>
    /\ result = EmptyResult
    /\ logged = {}
    /\ status = "running"

AdapterInit ==
    /\ adapter = "idle"
    /\ tool_calls = <<>>
    /\ deepeval_tool_calls = <<>>
    /\ adapter_status = "idle"

NoException == [response |-> FALSE, code |-> "", type |-> "none"]

InvokeInit ==
    /\ evaluator = "none"
    /\ pc = "idle"
    /\ tries = 0
    /\ attempts = <<>>
    /\ consumed = 0
    /\ agent_answer = PyNone
    /\ input_tokens = 0
    /\ output_tokens = 0
    /\ full_trace = <<>>
    /\ wait_time = 0
    /\ raised = NoException
    /\ processed_response = PyNone
    /\ stream = <<>>
    /\ discarded = {}

\* _convert_trace_to_messages has not been called.
ConvertInit ==
    /\ convert_status = "idle"
    /\ convert_trace = <<>>
    /\ convert_answer = PyNone
    /\ messages = <<>>

\* An exception of a scoring pass: its class and str(e).
Error(type, message) == [type |-> type, message |-> message]
NoError == Error("none", <<>>)

\* The locals of evaluate_response before their assignment.
NoLocals ==
    [topics |-> <<>>, full_trace |-> PyNone, agent_response |-> PyNone,
     messages |-> <<>>, tool_usage_data |-> PyNone,
     expected_tool_calls |-> <<>>, actual_tool_calls |-> <<>>]

\* evaluate_response has not been called.
EvalInit ==
    /\ metric = "none"
    /\ eval_pc = "idle"
    /\ metadata = PyNone
    /\ ground_truth = PyNone
    /\ eval_locals = NoLocals
    /\ eval_steps = <<>>
    /\ caught = NoError
    /\ eval_raised = NoError
    /\ eval_result = PyNone

\* The two calls on one extractor; none has started.
Calls == {1, 2}

CallInit ==
    /\ heap = <<>>
    /\ call_ref = [c \in Calls |-> 0]
    /\ call_events = [c \in Calls |-> <<>>]
    /\ call_status = [c \in Calls |-> "idle"]

\* extract_from_response has not been called.
ResponseInit ==
    /\ response_pc = "idle"
    /\ completion = <<>>
    /\ projected = <<>>
    /\ response_result = EmptyResult

Init ==
    /\ ExtractInit /\ AdapterInit /\ InvokeInit /\ ConvertInit /\ EvalInit
    /\ CallInit /\ ResponseInit

\* Lines 23-103: one turn of the loop on the next event of the sequence.
ProcessEvent(e) ==
    /\ status = "running"
    /\ Len(trace_events) < MaxEvents
    /\ trace_events' = Append(trace_events, e)
    /\ LET r == TryBody(result, e)
           after == [agents |-> r.agents, tool_calls |-> r.tool_calls]
       IN  IF r.exc = "none"
           THEN result' = after /\ UNCHANGED <<logged, status>>
           ELSE IF Caught(r.exc)
           THEN /\ result' = after
                /\ logged' = logged \cup {Len(trace_events) + 1}
                /\ UNCHANGED status
           ELSE /\ result' = after
                /\ status' = "raised"
                /\ UNCHANGED logged
    /\ UNCHANGED notExtractVars

\* Line 105: the sequence is exhausted and the report is returned.
Return ==
    /\ status = "running"
    /\ status' = "returned"
    /\ UNCHANGED <<trace_events, result, logged>>
    /\ UNCHANGED notExtractVars

Next ==
    \/ \E e \in Events : ProcessEvent(e)
    \/ Return

Spec == Init /\ [][Next]_vars

(***************************************************************************)
(* The same loop on events that carry a caller chain of one entry, whose   *)
(* agentAliasArn runs over every ARN of at most MaxSegments segments "a"   *)
(* or "b", and over ARNs with empty segments.                              *)
(***************************************************************************)
Segments == { <<"a">>, <<"b">> }

RECURSIVE Join(_)
Join(segs) ==
    IF Len(segs) = 1 THEN segs[1]
    ELSE segs[1] \o <<"/">> \o Join(Tail(segs))

EdgeArns ==
    { <<>>, <<"/">>, <<"a", "/">>, <<"/", "a">>, <<"/", "/">>,
      <<"a", "/", "/", "b">>, <<"/", "a", "/">> }

Arns ==
    EdgeArns \cup
    UNION { { Join(segs) : segs \in [1..n -> Segments] } : n \in 1..MaxSegments }

ArnEvents == { PyDict("callerChain" :> CallerChain(PyStr(arn))) : arn \in Arns }

NextArn ==
    \/ \E e \in ArnEvents : ProcessEvent(e)
    \/ Return

SpecArn == Init /\ [][NextArn]_vars

(***************************************************************************)
(* What the properties below read off an event.                            *)
(***************************************************************************)
IsStep == Len(trace_events') = Len(trace_events) + 1
NewEvent == trace_events'[Len(trace_events')]
NewIndex == Len(trace_events')

RECURSIVE HasKeyPath(_, _)
HasKeyPath(x, keys) ==
    \/ keys = <<>>
    \/ /\ x.t = "dict"
       /\ Head(keys) \in DOMAIN x.v
       /\ HasKeyPath(x.v[Head(keys)], Tail(keys))

InvocationKeys ==
    <<"trace", "orchestrationTrace", "invocationInput", "actionGroupInvocationInput">>

HasInvocationInput(e) == HasKeyPath(e, InvocationKeys)

InvocationInputOf(e) ==
    e.v["trace"].v["orchestrationTrace"].v["invocationInput"].v["actionGroupInvocationInput"]

FunctionShape(e) ==
    /\ HasInvocationInput(e)
    /\ InvocationInputOf(e).t = "dict"
    /\ "function" \in DOMAIN InvocationInputOf(e).v

PathShape(e) ==
    /\ HasInvocationInput(e)
    /\ InvocationInputOf(e).t = "dict"
    /\ "function" \notin DOMAIN InvocationInputOf(e).v
    /\ "apiPath" \in DOMAIN InvocationInputOf(e).v

NeitherShape(e) ==
    /\ HasInvocationInput(e)
    /\ InvocationInputOf(e).t = "dict"
    /\ "function" \notin DOMAIN InvocationInputOf(e).v
    /\ "apiPath" \notin DOMAIN InvocationInputOf(e).v

Qualifying(e) == FunctionShape(e) \/ PathShape(e)

\* The identity fields of a mapping event have the types of the data model:
\* agentId a str, callerChain a list of mappings whose agentAliasArn is a str.
WellFormedIdentity(e) ==
    /\ e.t = "dict"
    /\ "agentId" \in DOMAIN e.v => e.v["agentId"].t = "str"
    /\ "callerChain" \in DOMAIN e.v =>
          /\ e.v["callerChain"].t = "list"
          /\ \A i \in 1..Len(e.v["callerChain"].v) :
                LET caller == e.v["callerChain"].v[i]
                IN  /\ caller.t = "dict"
                    /\ "agentAliasArn" \in DOMAIN caller.v =>
                           caller.v["agentAliasArn"].t = "str"

AgentIdOf(e) == IF "agentId" \in DOMAIN e.v THEN e.v["agentId"] ELSE Unknown

\* The record the data model gives a qualifying event.
ExpectedToolCall(e) ==
    LET a == InvocationInputOf(e)
    IN  [agent_id |-> AgentIdOf(e),
         tool_name |-> IF FunctionShape(e) THEN a.v["function"] ELSE a.v["apiPath"],
         parameters |->
             IF FunctionShape(e)
             THEN (IF "parameters" \in DOMAIN a.v THEN a.v["parameters"]
                   ELSE PyDict(NoKeys))
             ELSE (IF "requestBody" \in DOMAIN a.v THEN a.v["requestBody"]
                   ELSE PyDict(NoKeys)),
         timestamp |-> IF "timestamp" \in DOMAIN e.v THEN e.v["timestamp"]
                       ELSE PyStr(<<>>)]

WithoutAgent(tool_call) ==
    [tool_name |-> tool_call.tool_name, parameters |-> tool_call.parameters,
     timestamp |-> tool_call.timestamp]

\* a is b with some entries left out, the others in b's order.
RECURSIVE IsSubsequence(_, _)
IsSubsequence(a, b) ==
    IF a = <<>> THEN TRUE
    ELSE IF b = <<>> THEN FALSE
    ELSE IF Head(a) = Head(b) THEN IsSubsequence(Tail(a), Tail(b))
    ELSE IsSubsequence(a, Tail(b))

RECURSIVE CallsOfAgent(_, _)
CallsOfAgent(flat, agent_id) ==
    IF flat = <<>> THEN <<>>
    ELSE (IF Head(flat).agent_id = agent_id THEN <<WithoutAgent(Head(flat))>>
          ELSE <<>>) \o CallsOfAgent(Tail(flat), agent_id)

ToolCallEvent(agent_id, action_group_input) ==
    PyDict(("agentId" :> agent_id) @@ Invocation(action_group_input))

IdentityEvent(agent_id) == PyDict("agentId" :> agent_id)

(***************************************************************************)
(* Properties of extract_from_trace, checked under Spec.                   *)
(***************************************************************************)

\* C1: for every sequence of events, malformed ones and values that are no
\* mappings included, extract_from_trace does not raise: every event that
\* raises is caught and logged inside the loop, which goes on (each event
\* that is None, or whose identity fields are ill-typed, is logged and the
\* call is still running or has returned).
C1_NeverRaises ==
    /\ status \in {"running", "returned"}
    /\ logged \subseteq 1..Len(trace_events)
    /\ \A i \in 1..Len(trace_events) :
          (trace_events[i].t # "str" /\ ~WellFormedIdentity(trace_events[i]))
              => i \in logged

\* C1 witness: the first event raised and was logged, the second one was
\* still processed and gave a tool call, and the call returned.
C1_Witness ==
    /\ status = "returned"
    /\ Len(trace_events) = 2
    /\ trace_events[1] = PyNone
    /\ logged = {1}
    /\ Len(result.tool_calls) = 1

\* C2 as claimed: after [tool call of agent A, identity of A] the flat list
\* has 1 entry and the list of A has none; after [identity of A, tool call
\* of A] the list of A has 1 entry.
C2_Original ==
    \A a \in {FunctionInput, PathInput} :
      /\ trace_events = <<ToolCallEvent(AgentA, a), IdentityEvent(AgentA)>> =>
            /\ Len(result.tool_calls) = 1
            /\ Len(result.agents[AgentA].tool_calls) = 0
      /\ trace_events = <<IdentityEvent(AgentA), ToolCallEvent(AgentA, a)>> =>
            /\ Len(result.agents[AgentA].tool_calls) = 1

\* C2 amended: in both orders the flat list has 1 entry and the list of A
\* has 1 entry, because the agentId step of the tool-call event creates the
\* record of A before its tool call is attributed.
C2_Amended ==
    \A a \in {FunctionInput, PathInput} :
      /\ trace_events = <<ToolCallEvent(AgentA, a), IdentityEvent(AgentA)>> =>
            /\ Len(result.tool_calls) = 1
            /\ Len(result.agents[AgentA].tool_calls) = 1
      /\ trace_events = <<IdentityEvent(AgentA), ToolCallEvent(AgentA, a)>> =>
            /\ Len(result.tool_calls) = 1
            /\ Len(result.agents[AgentA].tool_calls) = 1
      /\ trace_events = <<ToolCallEvent(AgentA, a)>> =>
            /\ Len(result.tool_calls) = 1
            /\ Len(result.agents[AgentA].tool_calls) = 1

\* C2 witness: the tool call came first, the identity event second.
C2_Witness ==
    /\ trace_events = <<ToolCallEvent(AgentA, FunctionInput), IdentityEvent(AgentA)>>
    /\ result.agents[AgentA].tool_calls = <<WithoutAgent(result.tool_calls[1])>>

\* C3: first seen wins.  A step never removes an agent nor changes the
\* agent_id, agent_alias_id or agent_name of one that exists; an agent that
\* a step creates takes the alias and name of the event's own agentId
\* fields when that is its id, and the default name "Agent-{id}" otherwise.
C3_FirstSeenWins ==
    [][ /\ \A id \in DOMAIN result.agents :
            /\ id \in DOMAIN result'.agents
            /\ result'.agents[id].agent_id = result.agents[id].agent_id
            /\ result'.agents[id].agent_alias_id = result.agents[id].agent_alias_id
            /\ result'.agents[id].agent_name = result.agents[id].agent_name
        /\ \A id \in DOMAIN result'.agents \ DOMAIN result.agents :
            /\ result'.agents[id].agent_id = id
            /\ IF "agentId" \in DOMAIN NewEvent.v /\ NewEvent.v["agentId"] = id
               THEN /\ result'.agents[id].agent_alias_id =
                         (IF "agentAliasId" \in DOMAIN NewEvent.v
                          THEN NewEvent.v["agentAliasId"] ELSE PyStr(<<>>))
                    /\ result'.agents[id].agent_name =
                         (IF "collaboratorName" \in DOMAIN NewEvent.v
                          THEN NewEvent.v["collaboratorName"]
                          ELSE PyStr(<<"Agent-">> \o id.v))
               ELSE result'.agents[id].agent_name = PyStr(<<"Agent-">> \o id.v)
      ]_vars

\* C3 witness: A was first seen through a caller chain, then came back as a
\* direct agentId with a name and an alias, and kept the first values.
C3_Witness ==
    /\ Len(trace_events) = 2
    /\ trace_events[1].t = "dict"
    /\ trace_events[2].t = "dict"
    /\ "agentId" \notin DOMAIN trace_events[1].v
    /\ "callerChain" \in DOMAIN trace_events[1].v
    /\ 1 \notin logged
    /\ "collaboratorName" \in DOMAIN trace_events[2].v
    /\ trace_events[2].v["agentId"] = AgentA
    /\ AgentA \in DOMAIN result.agents
    /\ result.agents[AgentA].agent_name = PyStr(<<"Agent-", "A">>)
    /\ result.agents[AgentA].agent_alias_id = PyStr(<<"al2">>)

\* The flat list the data model gives the events from index i on: one record
\* for each qualifying event.
RECURSIVE QualifyingCalls(_)
QualifyingCalls(i) ==
    IF i > Len(trace_events) THEN <<>>
    ELSE (IF Qualifying(trace_events[i])
          THEN <<ExpectedToolCall(trace_events[i])>> ELSE <<>>)
         \o QualifyingCalls(i + 1)

\* The same, leaving out the events whose processing raised.
RECURSIVE CompletedCalls(_)
CompletedCalls(i) ==
    IF i > Len(trace_events) THEN <<>>
    ELSE (IF Qualifying(trace_events[i]) /\ i \notin logged
          THEN <<ExpectedToolCall(trace_events[i])>> ELSE <<>>)
         \o CompletedCalls(i + 1)

AgentListsKeepOrder ==
    \A id \in DOMAIN result.agents :
        IsSubsequence(result.agents[id].tool_calls,
                      CallsOfAgent(result.tool_calls, id))

\* C4 as claimed: for every input sequence the flat list holds exactly one
\* entry for each qualifying event, in the order of the events, and each
\* agent's list keeps the relative order of its calls.
C4_Original ==
    /\ result.tool_calls = QualifyingCalls(1)
    /\ AgentListsKeepOrder

\* C4 amended: the flat list holds exactly one entry for each qualifying
\* event whose processing did not raise, in the order of the events (a
\* qualifying event whose agentId or callerChain step raises is dropped
\* whole), and each agent's list keeps the relative order of its calls.
C4_Amended ==
    /\ result.tool_calls = CompletedCalls(1)
    /\ AgentListsKeepOrder

\* C4 witness: two qualifying events of one agent, of different shapes, and
\* both lists hold the two calls in the order of the events.
C4_Witness ==
    /\ trace_events = <<ToolCallEvent(AgentA, PathInput),
                        ToolCallEvent(AgentA, FunctionInput)>>
    /\ Len(result.tool_calls) = 2
    /\ result.tool_calls[1].tool_name = PyStr(<<"/", "orders">>)
    /\ result.tool_calls[2].tool_name = PyStr(<<"search">>)
    /\ Len(result.agents[AgentA].tool_calls) = 2
    /\ result.agents[AgentA].tool_calls[1].tool_name = PyStr(<<"/", "orders">>)

\* C5: an event of function shape, or of path shape, whose identity fields
\* are well typed adds exactly one record to the flat list: its tool_name
\* and parameters are the values of `function` and `parameters`, or of
\* `apiPath` and `requestBody` unchanged, and its agent_id is the agentId
\* of the event, or "unknown" when it has none.
C5_OneRecordPerShape ==
    [][ (IsStep /\ Qualifying(NewEvent) /\ WellFormedIdentity(NewEvent)) =>
          LET a == InvocationInputOf(NewEvent)
              n == Len(result'.tool_calls)
          IN  /\ n = Len(result.tool_calls) + 1
              /\ SubSeq(result'.tool_calls, 1, n - 1) = result.tool_calls
              /\ FunctionShape(NewEvent) =>
                    /\ result'.tool_calls[n].tool_name = a.v["function"]
                    /\ result'.tool_calls[n].parameters = a.v["parameters"]
              /\ PathShape(NewEvent) =>
                    /\ result'.tool_calls[n].tool_name = a.v["apiPath"]
                    /\ result'.tool_calls[n].parameters = a.v["requestBody"]
              /\ result'.tool_calls[n].agent_id =
                    (IF "agentId" \in DOMAIN NewEvent.v THEN NewEvent.v["agentId"]
                     ELSE PyStr(<<"unknown">>))
      ]_vars

\* C5 witness: a path-shape event without agentId was recorded under
\* "unknown", after a function-shape event of agent A.
C5_Witness ==
    /\ Len(trace_events) = 2
    /\ trace_events[1] = ToolCallEvent(AgentA, FunctionInput)
    /\ trace_events[2] = PyDict(Invocation(PathInput))
    /\ Len(result.tool_calls) = 2
    /\ result.tool_calls[1].agent_id = AgentA
    /\ result.tool_calls[1].parameters = PyDict("q" :> PyStr(<<"x">>))
    /\ result.tool_calls[2].agent_id = PyStr(<<"unknown">>)
    /\ result.tool_calls[2].tool_name = PyStr(<<"/", "orders">>)

\* The segments of an ARN read off the positions of its slashes: the last
\* segment follows the last slash, the second-to-last one lies between the
\* slash before it (or the start) and the last slash.
Slashes(s) == {i \in 1..Len(s) : s[i] = "/"}
SegmentCount(s) == Cardinality(Slashes(s)) + 1
LastSlash(s) == CHOOSE i \in Slashes(s) : \A j \in Slashes(s) : j <= i
SlashBefore(s, i) ==
    IF \E j \in Slashes(s) : j < i
    THEN CHOOSE j \in Slashes(s) : j < i /\ \A k \in Slashes(s) : k < i => k <= j
    ELSE 0
LastSegment(s) == SubSeq(s, LastSlash(s) + 1, Len(s))
SecondToLastSegment(s) == SubSeq(s, SlashBefore(s, LastSlash(s)) + 1, LastSlash(s) - 1)

\* C6: an event whose actionGroupInvocationInput has neither `function`
\* nor `apiPath` (its identity fields well typed) adds no tool call to the
\* flat list nor to any agent's list, is not logged as an error, leaves the
\* loop running for the later events, and its agentId and callerChain
\* steps still take effect.
C6_NeitherShapeSkipped ==
    [][ (IsStep /\ NeitherShape(NewEvent) /\ WellFormedIdentity(NewEvent)) =>
          /\ result'.tool_calls = result.tool_calls
          /\ \A id \in DOMAIN result.agents :
                result'.agents[id].tool_calls = result.agents[id].tool_calls
          /\ \A id \in DOMAIN result'.agents \ DOMAIN result.agents :
                result'.agents[id].tool_calls = <<>>
          /\ NewIndex \notin logged'
          /\ status' = "running"
          /\ "agentId" \in DOMAIN NewEvent.v =>
                NewEvent.v["agentId"] \in DOMAIN result'.agents
          /\ "callerChain" \in DOMAIN NewEvent.v =>
                \A i \in 1..Len(NewEvent.v["callerChain"].v) :
                    LET caller == NewEvent.v["callerChain"].v[i]
                    IN  ("agentAliasArn" \in DOMAIN caller.v
                         /\ SegmentCount(caller.v["agentAliasArn"].v) >= 2)
                        => PyStr(SecondToLastSegment(caller.v["agentAliasArn"].v))
                               \in DOMAIN result'.agents
      ]_vars

\* C6 witness: a neither-shape event with an agentId and a caller chain
\* created both agents and no tool call, and the next event was processed
\* and gave one.
C6_Witness ==
    /\ Len(trace_events) = 2
    /\ NeitherShape(trace_events[1])
    /\ "callerChain" \in DOMAIN trace_events[1].v
    /\ "agentId" \in DOMAIN trace_events[1].v
    /\ logged = {}
    /\ DOMAIN result.agents = {AgentA, AgentB}
    /\ Len(result.tool_calls) = 1
    /\ Qualifying(trace_events[2])

(***************************************************************************)
(* Properties of the caller-chain step, checked under SpecArn.             *)
(***************************************************************************)
NewArn == NewEvent.v["callerChain"].v[1].v["agentAliasArn"].v

\* C7: splitting agentAliasArn on "/", an ARN of at least 3 segments
\* creates (if absent) the agent whose id is the second-to-last segment,
\* with the last segment as alias id; an ARN of exactly 2 segments creates
\* the agent whose id is the first segment, with an empty alias id; an ARN
\* without "/" creates no agent; an agent created this way is named
\* "Agent-{agent_id}".
C7_ArnParsing ==
    [][ IsStep =>
          LET n == SegmentCount(NewArn)
              id == PyStr(SecondToLastSegment(NewArn))
          IN  /\ n = 1 => result'.agents = result.agents
              /\ n >= 2 =>
                    /\ DOMAIN result'.agents = DOMAIN result.agents \cup {id}
                    /\ id \in DOMAIN result.agents =>
                          result'.agents = result.agents
                    /\ id \notin DOMAIN result.agents =>
                          /\ result'.agents[id].agent_id = id
                          /\ result'.agents[id].agent_name =
                                PyStr(<<"Agent-">> \o id.v)
                          /\ result'.agents[id].tool_calls = <<>>
                          /\ n = 2 =>
                                /\ id.v = SubSeq(NewArn, 1, LastSlash(NewArn) - 1)
                                /\ result'.agents[id].agent_alias_id = PyStr(<<>>)
                          /\ n >= 3 =>
                                result'.agents[id].agent_alias_id =
                                    PyStr(LastSegment(NewArn))
      ]_vars

\* C7 witness: "a/b/a" created agent "b" with alias "a", and then "a/b"
\* created agent "a" with an empty alias.
C7_Witness ==
    /\ Len(trace_events) = 2
    /\ trace_events[1] = PyDict("callerChain" :>
            CallerChain(PyStr(<<"a", "/", "b", "/", "a">>)))
    /\ trace_events[2] = PyDict("callerChain" :>
            CallerChain(PyStr(<<"a", "/", "b">>)))
    /\ DOMAIN result.agents = {PyStr(<<"a">>), PyStr(<<"b">>)}
    /\ result.agents[PyStr(<<"b">>)].agent_alias_id = PyStr(<<"a">>)
    /\ result.agents[PyStr(<<"a">>)].agent_alias_id = PyStr(<<>>)
    /\ result.agents[PyStr(<<"a">>)].agent_name = PyStr(<<"Agent-", "a">>)

(***************************************************************************)
(* DeepevalHelper.  A conversion is one loop over its input records; the   *)
(* scorer's ToolCall(name=...) object is the record [name].  Nothing in    *)
(* the loops catches an exception: one that a record raises leaves the     *)
(* conversion.                                                             *)
(***************************************************************************)
DeepevalToolCall(name) == [name |-> name]

\* call.get("tool_name", "")
NameOf_NameKey(call) == PyGet(call, "name", PyStr(<<>>))

NameOf(call) == PyGet(call, "tool_name", PyStr(<<>>))

\* deepeval_helper.py lines 32-38: one record of convert_to_deepeval_tool_calls.
\* The parameters are read and dropped.
ConvertOne(tool_call) ==
    IF tool_call.t # "dict" THEN [exc |-> "AttributeError", call |-> PyNone]
    ELSE [exc |-> "none", call |-> DeepevalToolCall(NameOf(tool_call))]

\* Lines 72-73: `for param in call.get("parameters", []): param.get(...)`.
\* A list gives its elements, a dict or a str its keys or characters, which
\* are str and have no .get; a key that is a dict or a list is unhashable.
ParametersLoop(parameters) ==
    IF ~CanContain(parameters) THEN "TypeError"
    ELSE IF parameters.t = "list"
    THEN IF \E i \in 1..Len(parameters.v) : parameters.v[i].t # "dict"
         THEN "AttributeError"
         ELSE IF \E i \in 1..Len(parameters.v) :
                    ~Hashable(PyGet(parameters.v[i], "name", PyNone))
         THEN "TypeError"
         ELSE "none"
    ELSE IF parameters.t = "dict"
    THEN IF DOMAIN parameters.v = {} THEN "none" ELSE "AttributeError"
    ELSE IF Len(parameters.v) = 0 THEN "none" ELSE "AttributeError"

\* Lines 70-76: one record of convert_bedrock_format_to_deepeval_tool_calls.
\* The name -> value mapping built from the parameters is dropped.
ConvertBedrockOne(call) ==
    IF call.t # "dict" THEN [exc |-> "AttributeError", call |-> PyNone]
    ELSE LET exc == ParametersLoop(PyGet(call, "parameters", PyList(<<>>)))
         IN  IF exc # "none" THEN [exc |-> exc, call |-> PyNone]
             ELSE [exc |-> "none", call |-> DeepevalToolCall(NameOf(call))]

\* The records the model gives a conversion.
NameParts ==
    { NoKeys,
      "tool_name" :> PyStr(<<"search">>),
      "tool_name" :> PyStr(<<"lookup">>),
      "name" :> PyStr(<<"search">>) }

Triple(name, value) ==
    PyDict(("name" :> PyStr(<<name>>)) @@ ("type" :> PyStr(<<"string">>))
           @@ ("value" :> PyStr(<<value>>)))

ParameterParts ==
    { NoKeys,
      "parameters" :> PyList(<<>>),
      "parameters" :> PyList(<<Triple("q", "x"), Triple("q", "y")>>),
      "parameters" :> PyDict(NoKeys),
      "parameters" :> PyDict("q" :> PyStr(<<"x">>)) }

CallRecords == { PyDict(n @@ q) : n \in NameParts, q \in ParameterParts }

\* A conversion is called.
AdapterStart(which) ==
    /\ adapter_status = "idle"
    /\ adapter' = which
    /\ adapter_status' = "running"
    /\ tool_calls' = <<>>
    /\ deepeval_tool_calls' = <<>>
    /\ UNCHANGED notAdapterVars

\* One turn of the loop of the conversion.
AdapterStep(call) ==
    /\ adapter_status = "running"
    /\ Len(tool_calls) < MaxCalls
    /\ tool_calls' = Append(tool_calls, call)
    /\ LET r == IF adapter = "ground_truth" THEN ConvertOne(call)
                ELSE ConvertBedrockOne(call)
       IN  IF r.exc = "none"
           THEN /\ deepeval_tool_calls' = Append(deepeval_tool_calls, r.call)
                /\ UNCHANGED adapter_status
           ELSE /\ adapter_status' = "raised"
                /\ UNCHANGED deepeval_tool_calls
    /\ UNCHANGED <<adapter, notAdapterVars>>

\* Lines 40 and 78: the list is returned.
AdapterReturn ==
    /\ adapter_status = "running"
    /\ adapter_status' = "returned"
    /\ UNCHANGED <<adapter, tool_calls, deepeval_tool_calls, notAdapterVars>>

NextAdapter ==
    \/ \E which \in {"ground_truth", "bedrock"} : AdapterStart(which)
    \/ \E call \in CallRecords : AdapterStep(call)
    \/ AdapterReturn

SpecAdapter == Init /\ [][NextAdapter]_vars

(***************************************************************************)
(* Properties of the conversions, checked under SpecAdapter.               *)
(***************************************************************************)

\* The input has the format the conversion documents: for the Bedrock
\* conversion, `parameters` is missing or a list of {name, type, value}.
DocumentedFormat(call) ==
    \/ adapter = "ground_truth"
    \/ "parameters" \notin DOMAIN call.v
    \/ /\ call.v["parameters"].t = "list"
       /\ \A i \in 1..Len(call.v["parameters"].v) :
             call.v["parameters"].v[i].t = "dict"

max_retries == 3

\* The exceptions of the remote client: a ClientError carries a response
\* with an error code, other exceptions carry none.
ThrottlingException ==
    [response |-> TRUE, code |-> "throttlingException", type |-> "ClientError"]
AccessDenied ==
    [response |-> TRUE, code |-> "accessDeniedException", type |-> "ClientError"]
ConnectionFailed == [response |-> FALSE, code |-> "", type |-> "ConnectionError"]
KeyErrorRaised == [response |-> FALSE, code |-> "", type |-> "KeyError"]

RemoteExceptions == {ThrottlingException, AccessDenied, ConnectionFailed}

\* Lines 90-95: the condition of the retry.
ShouldRetry_AnyError(e, n) == n <= max_retries

ShouldRetry(e, n) ==
    /\ e.response
    /\ e.code = "throttlingException"
    /\ n <= max_retries

\* Line 102: the argument of the recursive call.
NextTries_Same(n) == n

NextTries(n) == n + 1

\* Line 96.
WaitTime(n) == 30 * n

\* How an attempt that raised e is written in `attempts`.
Ending(e) ==
    IF e.response /\ e.code = "throttlingException" THEN "throttled" ELSE "failed"

\* Lines 89-104: the except clause, on exception e of the current attempt.
Handle(e) ==
    /\ attempts' = [attempts EXCEPT ![Len(attempts)] = Ending(e)]
    /\ IF ShouldRetry(e, tries)
       THEN /\ pc' = "sleeping"
            /\ wait_time' = WaitTime(tries)
            /\ UNCHANGED raised
       ELSE /\ pc' = "raised"
            /\ raised' = e
            /\ UNCHANGED wait_time

\* The events of a completion stream.
Chunk(text) == PyDict("chunk" :> PyDict("bytes" :> PyBytes(<<text>>)))

TracePart(orchestration_trace) ==
    PyDict(("agentId" :> AgentA) @@
           ("trace" :> PyDict("orchestrationTrace" :> orchestration_trace)))

ModelOutput(m, n) ==
    PyDict("modelInvocationOutput" :> PyDict("metadata" :> PyDict("usage" :>
        PyDict(("inputTokens" :> PyInt(m)) @@ ("outputTokens" :> PyInt(n))))))

InvocationStep ==
    PyDict("invocationInput" :>
        PyDict("actionGroupInvocationInput" :> FunctionInput))

ObservationStep ==
    PyDict("observation" :> PyDict("actionGroupInvocationOutput" :>
        PyDict("text" :> PyStr(<<"42">>))))

CompletionEvents ==
    { Chunk("answer"),
      PyDict("trace" :> TracePart(ModelOutput(2, 1))),
      PyDict("trace" :> TracePart(InvocationStep)),
      PyDict("trace" :> TracePart(ObservationStep)),
      PyDict("trace" :> PyDict("agentId" :> AgentA)),
      PyDict("returnControl" :> PyDict(NoKeys)) }

\* Lines 58-74: what one event does to the locals; exc is the exception it
\* raises, if any.
Consume(event) ==
    LET same == [exc |-> NoException, agent_answer |-> agent_answer,
                 input_tokens |-> input_tokens, output_tokens |-> output_tokens,
                 full_trace |-> full_trace]
    IN  IF "chunk" \in DOMAIN event.v
        THEN [same EXCEPT !.agent_answer = PyStr(event.v["chunk"].v["bytes"].v)]
        ELSE IF "trace" \in DOMAIN event.v
        THEN LET appended == [same EXCEPT !.full_trace =
                                  Append(full_trace, event.v["trace"])]
             IN  IF "trace" \notin DOMAIN event.v["trace"].v
                 THEN [appended EXCEPT !.exc = KeyErrorRaised]
                 ELSE LET trace_obj == event.v["trace"].v["trace"]
                          orc_trace == trace_obj.v["orchestrationTrace"]
                      IN  IF "orchestrationTrace" \in DOMAIN trace_obj.v
                             /\ "modelInvocationOutput" \in DOMAIN orc_trace.v
                          THEN LET usage == orc_trace.v["modelInvocationOutput"]
                                                .v["metadata"].v["usage"]
                               IN  [appended EXCEPT
                                      !.input_tokens = @ +
                                          PyGet(usage, "inputTokens", PyInt(0)).v,
                                      !.output_tokens = @ +
                                          PyGet(usage, "outputTokens", PyInt(0)).v]
                          ELSE appended
        ELSE same

\* A fresh frame: the locals hold nothing before lines 52-55 set them.
FreshLocals_Kept ==
    /\ consumed' = 0
    /\ UNCHANGED <<agent_answer, input_tokens, output_tokens, full_trace>>

FreshLocals ==
    /\ agent_answer' = PyNone
    /\ input_tokens' = 0
    /\ output_tokens' = 0
    /\ full_trace' = <<>>
    /\ consumed' = 0

\* The evaluator calls invoke_agent() (tries = 1).
InvokeAgent(which) ==
    /\ pc = "idle"
    /\ evaluator' = which
    /\ pc' = "invoking"
    /\ tries' = 1
    /\ attempts' = <<>>
    /\ FreshLocals
    /\ stream' = <<>>
    /\ discarded' = {}
    /\ UNCHANGED <<wait_time, raised, processed_response, notInvokeVars>>

\* Lines 44-55: the remote call returns a response.
RemoteCallReturns ==
    /\ pc = "invoking"
    /\ attempts' = Append(attempts, "running")
    /\ pc' = "streaming"
    /\ FreshLocals
    /\ stream' = <<>>
    /\ UNCHANGED <<evaluator, tries, wait_time, raised, processed_response,
                   discarded, notInvokeVars>>

\* Lines 44 and 89-104: the remote call raises.
RemoteCallRaises(e) ==
    /\ pc = "invoking"
    /\ LET started == Append(attempts, "running")
       IN  /\ attempts' = [started EXCEPT ![Len(started)] = Ending(e)]
           /\ IF ShouldRetry(e, tries)
              THEN /\ pc' = "sleeping"
                   /\ wait_time' = WaitTime(tries)
                   /\ UNCHANGED raised
              ELSE /\ pc' = "raised"
                   /\ raised' = e
                   /\ UNCHANGED wait_time
    /\ UNCHANGED <<evaluator, tries, consumed, agent_answer, input_tokens,
                   output_tokens, full_trace, processed_response, stream,
                   discarded, notInvokeVars>>

\* Lines 57-74: the stream gives its next event.
StreamEvent(event) ==
    /\ pc = "streaming"
    /\ consumed < MaxStream
    /\ consumed' = consumed + 1
    /\ stream' = Append(stream, event)
    /\ LET r == Consume(event)
       IN  /\ agent_answer' = r.agent_answer
           /\ input_tokens' = r.input_tokens
           /\ output_tokens' = r.output_tokens
           /\ full_trace' = r.full_trace
           /\ IF r.exc = NoException
              THEN UNCHANGED <<pc, attempts, wait_time, raised, discarded>>
              ELSE /\ Handle(r.exc)
                   /\ discarded' = discarded \cup
                          {stream'[i] : i \in 1..Len(stream')}
    /\ UNCHANGED <<evaluator, tries, processed_response, notInvokeVars>>

\* Line 57: reading the stream raises.
StreamRaises(e) ==
    /\ pc = "streaming"
    /\ Handle(e)
    /\ discarded' = discarded \cup {stream[i] : i \in 1..Len(stream)}
    /\ UNCHANGED <<evaluator, tries, consumed, agent_answer, input_tokens,
                   output_tokens, full_trace, processed_response, stream,
                   notInvokeVars>>

\* Lines 76-87: the stream ends and the frame returns, and with it every
\* frame below it.
StreamEnds ==
    /\ pc = "streaming"
    /\ pc' = "returned"
    /\ attempts' = [attempts EXCEPT ![Len(attempts)] = "returned"]
    /\ processed_response' =
          PyDict(("agent_answer" :> agent_answer)
                 @@ ("input_tokens" :> PyInt(input_tokens))
                 @@ ("output_tokens" :> PyInt(output_tokens))
                 @@ ("full_trace" :> PyList(full_trace))
                 @@ (IF evaluator = "tool_correctness"
                     THEN "question" :> PyStr(<<"question">>) ELSE NoKeys))
    /\ UNCHANGED <<evaluator, tries, consumed, agent_answer, input_tokens,
                   output_tokens, full_trace, wait_time, raised, stream,
                   discarded, notInvokeVars>>

\* Lines 101-102: the sleep is over and invoke_agent(tries + 1) is called.
Retry ==
    /\ pc = "sleeping"
    /\ pc' = "invoking"
    /\ tries' = NextTries(tries)
    /\ FreshLocals
    /\ UNCHANGED <<evaluator, attempts, wait_time, raised, processed_response,
                   stream, discarded, notInvokeVars>>

RemoteCall == RemoteCallReturns \/ \E e \in RemoteExceptions : RemoteCallRaises(e)

Stream ==
    \/ \E event \in CompletionEvents : StreamEvent(event)
    \/ \E e \in RemoteExceptions : StreamRaises(e)
    \/ StreamEnds

NextInvoke ==
    \/ \E which \in {"tool_correctness", "topic_adherence"} : InvokeAgent(which)
    \/ RemoteCall
    \/ Stream
    \/ Retry

\* The remote call answers or fails, a completion stream is finite and is
\* read to its end, and time.sleep returns.
SpecInvoke ==
    /\ Init
    /\ [][NextInvoke]_vars
    /\ WF_vars(RemoteCall)
    /\ WF_vars(Stream)
    /\ WF_vars(Retry)

(***************************************************************************)
(* Properties of invoke_agent, checked under SpecInvoke.                   *)
(***************************************************************************)
Finished == pc \in {"returned", "raised"}

\* C9: every top-level invoke_agent call terminates, returning the result
\* of a successful remote call or raising, after a bounded number of remote
\* calls (at most max_retries + 1); when every remote call is throttled the
\* retries stop and the throttling error is raised to the caller.
C9_InvokeTerminates ==
    /\ [](Len(attempts) <= max_retries + 1)
    /\ [](pc = "returned" =>
            /\ attempts[Len(attempts)] = "returned"
            /\ processed_response.t = "dict")
    /\ []((Finished /\ \A i \in 1..Len(attempts) : attempts[i] = "throttled")
            => (pc = "raised" /\ raised = ThrottlingException))
    /\ (pc = "invoking") ~> Finished

\* C9 witness: every remote call was throttled, and the call raised the
\* throttling error after its last retry.
C9_Witness ==
    /\ pc = "raised"
    /\ raised = ThrottlingException
    /\ Len(attempts) = max_retries + 1
    /\ tries = max_retries + 1
    /\ \A i \in 1..Len(attempts) : attempts[i] = "throttled"

(***************************************************************************)
(* TopicAdherenceEvaluator._convert_trace_to_messages: the RAGAS messages  *)
(* built from a list of trace events and the final answer.                 *)
(***************************************************************************)
MaxTrace == 3

\* self.question
question == PyStr(<<"how", "many">>)

\* The RAGAS messages; tool_calls is empty for a human or a tool message.
HumanMessage(content) ==
    [type |-> "human", content |-> content, tool_calls |-> <<>>]
AIMessage(content, calls) ==
    [type |-> "ai", content |-> content, tool_calls |-> calls]
ToolMessage(content) ==
    [type |-> "tool", content |-> content, tool_calls |-> <<>>]

\* str(x)
Str(x) == PyStr(Format(x))

\* `if x:` of a str or None.
Truthy(x) == x.t = "str" /\ x.v # <<>>

AttributeErrorRaised ==
    [response |-> FALSE, code |-> "", type |-> "AttributeError"]

\* Lines 58-76: the assistant message of a tool call, or the exception that
\* .items() raises on parameters that are no dict.
InvocationMessages(orc_trace) ==
    IF "invocationInput" \notin DOMAIN orc_trace.v
    THEN [exc |-> NoException, msgs |-> <<>>]
    ELSE LET invoc_input == orc_trace.v["invocationInput"]
         IN  IF "actionGroupInvocationInput" \notin DOMAIN invoc_input.v
             THEN [exc |-> NoException, msgs |-> <<>>]
             ELSE LET action_input == invoc_input.v["actionGroupInvocationInput"]
                      parameters == PyGet(action_input, "parameters", PyDict(NoKeys))
                  IN  IF parameters.t # "dict"
                      THEN [exc |-> AttributeErrorRaised, msgs |-> <<>>]
                      ELSE [exc |-> NoException,
                            msgs |-> << AIMessage(
                                PyStr(<<"Using tool to process request">>),
                                << [name |-> Str(PyGet(action_input, "function", PyStr(<<>>))),
                                    args |-> [k \in DOMAIN parameters.v |->
                                                 Str(parameters.v[k])]] >>) >>]

\* Lines 79-85: the tool message of an observation.
ObservationMessages(orc_trace) ==
    IF "observation" \notin DOMAIN orc_trace.v
    THEN <<>>
    ELSE LET obs == orc_trace.v["observation"]
         IN  IF "actionGroupInvocationOutput" \notin DOMAIN obs.v
             THEN <<>>
             ELSE << ToolMessage(Str(PyGet(obs.v["actionGroupInvocationOutput"],
                                           "text", PyStr(<<>>)))) >>

\* A changed order of the two blocks of the loop body.
OrcMessages_ObservationFirst(orc_trace) ==
    LET inv == InvocationMessages(orc_trace)
    IN  [exc |-> inv.exc,
         msgs |-> IF inv.exc # NoException THEN <<>>
                  ELSE ObservationMessages(orc_trace) \o inv.msgs]

\* Lines 57-85: the tool call first, then the tool output.
OrcMessages(orc_trace) ==
    LET inv == InvocationMessages(orc_trace)
    IN  [exc |-> inv.exc,
         msgs |-> IF inv.exc # NoException THEN <<>>
                  ELSE inv.msgs \o ObservationMessages(orc_trace)]

\* Lines 52-85: the messages one element of full_trace adds, or the
\* exception its processing raises.
EventMessages(event) ==
    IF "trace" \notin DOMAIN event.v
    THEN [exc |-> NoException, msgs |-> <<>>]
    ELSE IF "trace" \notin DOMAIN event.v["trace"].v
    THEN [exc |-> KeyErrorRaised, msgs |-> <<>>]
    ELSE LET trace_obj == event.v["trace"].v["trace"]
         IN  IF "orchestrationTrace" \notin DOMAIN trace_obj.v
             THEN [exc |-> NoException, msgs |-> <<>>]
             ELSE OrcMessages(trace_obj.v["orchestrationTrace"])

\* Lines 87-88
FinalMessages(answer) ==
    IF Truthy(answer) THEN << AIMessage(Str(answer), <<>>) >> ELSE <<>>

\* The elements of a trace list.  RawEvent is a raw completion event, the
\* shape line 53 reads; TracePart alone is the shape invoke_agent stores.
RawEvent(orchestration_trace) == PyDict("trace" :> TracePart(orchestration_trace))

CountInput ==
    PyDict(("function" :> PyStr(<<"count">>))
           @@ ("parameters" :> PyDict("n" :> PyInt(7))))

ListParametersInput ==
    PyDict(("function" :> PyStr(<<"search">>))
           @@ ("parameters" :> PyList(<<PyDict("name" :> PyStr(<<"q">>))>>)))

BothSteps ==
    PyDict(("invocationInput" :>
                PyDict("actionGroupInvocationInput" :> CountInput))
           @@ ("observation" :> PyDict("actionGroupInvocationOutput" :>
                PyDict("text" :> PyInt(7)))))

PathStep ==
    PyDict("invocationInput" :> PyDict("actionGroupInvocationInput" :> PathInput))

ListParametersStep ==
    PyDict("invocationInput" :>
        PyDict("actionGroupInvocationInput" :> ListParametersInput))

LookupStep ==
    PyDict(("invocationInput" :>
                PyDict("knowledgeBaseLookupInput" :> PyDict(NoKeys)))
           @@ ("observation" :>
                PyDict("knowledgeBaseLookupOutput" :> PyDict(NoKeys))))

ConvertEvents ==
    { RawEvent(InvocationStep),
      RawEvent(ObservationStep),
      RawEvent(BothSteps),
      RawEvent(PathStep),
      RawEvent(LookupStep),
      RawEvent(ModelOutput(2, 1)),
      RawEvent(ListParametersStep),
      PyDict("trace" :> PyDict(("agentId" :> AgentA) @@
          ("trace" :> PyDict("preProcessingTrace" :> PyDict(NoKeys))))),
      Chunk("answer"),
      TracePart(InvocationStep) }

Answers == { PyNone, PyStr(<<>>), PyStr(<<"done">>) }

\* Lines 47-49: the call starts with the human message.
ConvertStart(answer) ==
    /\ convert_status = "idle"
    /\ convert_status' = "running"
    /\ convert_answer' = answer
    /\ messages' = << HumanMessage(Str(question)) >>
    /\ UNCHANGED convert_trace
    /\ UNCHANGED notConvertVars

\* Lines 51-85: one iteration of the loop; an exception leaves the call.
ConvertStep(event) ==
    /\ convert_status = "running"
    /\ Len(convert_trace) < MaxTrace
    /\ convert_trace' = Append(convert_trace, event)
    /\ LET r == EventMessages(event)
       IN  IF r.exc # NoException
           THEN /\ convert_status' = "raised"
                /\ UNCHANGED messages
           ELSE /\ messages' = messages \o r.msgs
                /\ UNCHANGED convert_status
    /\ UNCHANGED convert_answer
    /\ UNCHANGED notConvertVars

\* Lines 87-92: the end of the trace list.
ConvertReturn ==
    /\ convert_status = "running"
    /\ convert_status' = "returned"
    /\ messages' = messages \o FinalMessages(convert_answer)
    /\ UNCHANGED <<convert_trace, convert_answer>>
    /\ UNCHANGED notConvertVars

NextConvert ==
    \/ \E answer \in Answers : ConvertStart(answer)
    \/ \E event \in ConvertEvents : ConvertStep(event)
    \/ ConvertReturn

SpecConvert == Init /\ [][NextConvert]_vars

\* The turns a trace list stands for, in the order of its events: for each
\* event its tool call, if it carries one, then its tool output, if it
\* carries one.
CallKeys ==
    <<"trace", "trace", "orchestrationTrace", "invocationInput",
      "actionGroupInvocationInput">>
OutputKeys ==
    <<"trace", "trace", "orchestrationTrace", "observation",
      "actionGroupInvocationOutput">>

RECURSIVE At(_, _)
At(x, keys) == IF keys = <<>> THEN x ELSE At(x.v[Head(keys)], Tail(keys))

TurnsOf(i) ==
    LET e == convert_trace[i]
    IN  (IF HasKeyPath(e, CallKeys) THEN << [kind |-> "call", of |-> i] >> ELSE <<>>)
        \o (IF HasKeyPath(e, OutputKeys) THEN << [kind |-> "output", of |-> i] >> ELSE <<>>)

RECURSIVE TurnsUpTo(_)
TurnsUpTo(n) == IF n = 0 THEN <<>> ELSE TurnsUpTo(n - 1) \o TurnsOf(n)

\* Message m is the message of turn t.
IsTurn(m, t) ==
    LET e == convert_trace[t.of]
    IN  IF t.kind = "call"
        THEN /\ m.type = "ai"
             /\ Len(m.tool_calls) = 1
             /\ m.tool_calls[1].name =
                    Str(PyGet(At(e, CallKeys), "function", PyStr(<<>>)))
        ELSE /\ m.type = "tool"
             /\ m.content = Str(PyGet(At(e, OutputKeys), "text", PyStr(<<>>)))

IsFinalAnswer(m) ==
    m.type = "ai" /\ m.content = convert_answer /\ m.tool_calls = <<>>

\* C10: the returned list starts with the only human message, which carries
\* the question; then come the tool-call and tool-output messages in the
\* order of the trace events, an event's tool call before its tool output;
\* the final assistant answer is last, after all of them, whenever the
\* answer is non-empty, and absent otherwise.
C10_MessageOrdering ==
    convert_status = "returned" =>
        LET turns == TurnsUpTo(Len(convert_trace))
            final == IF convert_answer.t = "str" /\ Len(convert_answer.v) > 0
                     THEN 1 ELSE 0
        IN  /\ Len(messages) = 1 + Len(turns) + final
            /\ messages[1].type = "human"
            /\ messages[1].content = question
            /\ \A i \in 2..Len(messages) : messages[i].type # "human"
            /\ \A j \in 1..Len(turns) : IsTurn(messages[1 + j], turns[j])
            /\ final = 1 => IsFinalAnswer(messages[Len(messages)])

\* C10 witness: a returned list for a trace with an event that carries both a
\* tool call and a tool output, a later event with a tool call, and a
\* non-empty answer.
C10_Witness ==
    /\ convert_status = "returned"
    /\ Len(convert_trace) = 2
    /\ convert_trace[1] = RawEvent(BothSteps)
    /\ convert_trace[2] = RawEvent(InvocationStep)
    /\ convert_answer = PyStr(<<"done">>)
    /\ Len(messages) = 5
    /\ messages[2].type = "ai"
    /\ messages[3].type = "tool"
    /\ messages[4].type = "ai"
    /\ IsFinalAnswer(messages[5])

(***************************************************************************)
(* evaluate_response of the two evaluators.  The try block runs block by   *)
(* block; an exception of a block is caught by `except Exception as e`,    *)
(* which raises Exception("Error evaluating <metric>: " + str(e)).         *)
(***************************************************************************)
PyFloat(n) == [t |-> "float", v |-> n]

\* The text of the exceptions the blocks raise.
KeyErrorOf(key) == Error("KeyError", <<"'", key, "'">>)
NoGet(x) ==
    Error("AttributeError",
          <<"'", IF x.t = "None" THEN "NoneType" ELSE x.t,
            "' object has no attribute 'get'">>)
NotIterable(x) ==
    Error("TypeError",
          <<"'", IF x.t = "None" THEN "NoneType" ELSE x.t,
            "' object is not iterable">>)
NoTopics ==
    Error("ValueError", <<"No topics provided in ground truth for evaluation">>)
NotANumber(x) ==
    Error("TypeError",
          <<"float() argument must be a string or a real number, not '",
            IF x.t = "None" THEN "NoneType" ELSE x.t, "'">>)

\* The exception of _convert_trace_to_messages, with its text.
ConvertError(exc) ==
    IF exc = KeyErrorRaised THEN KeyErrorOf("trace")
    ELSE Error("AttributeError", <<"'list' object has no attribute 'items'">>)

\* Line 222 and tool_correctness_evaluator.py line 178: the exception raised
\* to the caller.
Wrap_OwnMessage(name, e) == Error("Exception", <<"Error evaluating ", name>>)

Wrap(name, e) ==
    Error("Exception", <<"Error evaluating ", name, ": ">> \o e.message)

\* The except clause: the pass ends with the wrapped exception.
Fail(name, e) ==
    /\ eval_pc' = "raised"
    /\ caught' = e
    /\ eval_raised' = Wrap(name, e)
    /\ UNCHANGED eval_result

\* _convert_trace_to_messages on a whole list.
RECURSIVE ConvertLoop(_, _, _)
ConvertLoop(events, i, msgs) ==
    IF i > Len(events) THEN [exc |-> NoException, msgs |-> msgs]
    ELSE LET r == EventMessages(events[i])
         IN  IF r.exc # NoException THEN [exc |-> r.exc, msgs |-> msgs]
             ELSE ConvertLoop(events, i + 1, msgs \o r.msgs)

ConvertTraceToMessages(trace, answer) ==
    LET r == ConvertLoop(trace, 1, << HumanMessage(Str(question)) >>)
    IN  IF r.exc # NoException THEN r
        ELSE [exc |-> NoException, msgs |-> r.msgs \o FinalMessages(answer)]

\* Lines 186-188: the topics as strings, or the exception of reading them.
Topics(md) ==
    IF "ground_truth" \notin DOMAIN md.v
    THEN [exc |-> KeyErrorOf("ground_truth"), topics |-> <<>>]
    ELSE LET gt == md.v["ground_truth"]
         IN  IF gt.t # "dict" THEN [exc |-> NoGet(gt), topics |-> <<>>]
             ELSE LET raw == PyGet(gt, "topics", PyList(<<>>))
                  IN  IF raw.t \notin {"list", "str"}
                      THEN [exc |-> NotIterable(raw), topics |-> <<>>]
                      ELSE [exc |-> NoError,
                            topics |-> [i \in 1..Len(raw.v) |->
                                IF raw.t = "list" THEN Str(raw.v[i])
                                ELSE PyStr(<<raw.v[i]>>)]]

\* Line 192: `if not topics`.
Missing_Never(topics) == FALSE

Missing(topics) == Len(topics) = 0

\* evaluate_response of the topic-adherence evaluator is called.
EvaluateTopicAdherence(md) ==
    /\ eval_pc = "idle"
    /\ metric' = "topic adherence"
    /\ eval_pc' = "topics"
    /\ metadata' = md
    /\ UNCHANGED <<ground_truth, eval_locals, eval_steps, caught, eval_raised,
                   eval_result>>
    /\ UNCHANGED notEvalVars

\* Lines 186-193: the topics, the trace, the answer, and the test of the
\* topics.
ReadTopics ==
    /\ metric = "topic adherence"
    /\ eval_pc = "topics"
    /\ LET r == Topics(metadata)
       IN  IF r.exc # NoError
           THEN Fail(metric, r.exc) /\ UNCHANGED eval_locals
           ELSE IF Missing(r.topics)
           THEN Fail(metric, NoTopics) /\ UNCHANGED eval_locals
           ELSE /\ eval_locals' =
                       [eval_locals EXCEPT
                           !.topics = r.topics,
                           !.full_trace = PyGet(metadata, "full_trace", PyList(<<>>)),
                           !.agent_response =
                               PyGet(metadata, "agent_response", PyStr(<<>>))]
                /\ eval_pc' = "convert"
                /\ UNCHANGED <<caught, eval_raised, eval_result>>
    /\ UNCHANGED <<metric, metadata, ground_truth, eval_steps>>
    /\ UNCHANGED notEvalVars

\* Line 196: the messages of the trace.
ConvertMessages ==
    /\ metric = "topic adherence"
    /\ eval_pc = "convert"
    /\ eval_steps' = Append(eval_steps, "convert")
    /\ IF eval_locals.full_trace.t # "list"
       THEN Fail(metric, NotIterable(eval_locals.full_trace))
            /\ UNCHANGED eval_locals
       ELSE LET r == ConvertTraceToMessages(eval_locals.full_trace.v,
                                            eval_locals.agent_response)
            IN  IF r.exc # NoException
                THEN Fail(metric, ConvertError(r.exc)) /\ UNCHANGED eval_locals
                ELSE /\ eval_locals' = [eval_locals EXCEPT !.messages = r.msgs]
                     /\ eval_pc' = "score"
                     /\ UNCHANGED <<caught, eval_raised, eval_result>>
    /\ UNCHANGED <<metric, metadata, ground_truth>>
    /\ UNCHANGED notEvalVars

\* What the scoring library does with a sample: a score, or an exception.
Scored(score) == [exc |-> NoError, score |-> score]
ScorerFails == [exc |-> Error("RuntimeError", <<"scorer failed">>), score |-> PyNone]
ScorerOutcomes ==
    { Scored(PyFloat(0)), Scored(PyFloat(1)), Scored(PyInt(1)), Scored(PyNone),
      ScorerFails }

\* float(x)
Float(x) ==
    IF x.t = "float" THEN [exc |-> NoError, val |-> x]
    ELSE IF x.t = "int" THEN [exc |-> NoError, val |-> PyFloat(x.v)]
    ELSE [exc |-> NotANumber(x), val |-> PyNone]

\* ", ".join(topics)
RECURSIVE JoinTopics(_)
JoinTopics(topics) ==
    IF Len(topics) = 0 THEN <<>>
    ELSE IF Len(topics) = 1 THEN topics[1].v
    ELSE topics[1].v \o <<", ">> \o JoinTopics(Tail(topics))

\* Lines 207-219
TopicAdherenceResult(score, topics, msgs) ==
    PyDict(("metrics_scores" :> PyDict("topic_adherence" :>
                PyDict(("score" :> score) @@
                       ("explanation" :> PyStr(<<"Response adherence to topics: ">>
                                                \o JoinTopics(topics))))))
           @@ ("detailed_analysis" :>
                PyDict(("evaluated_topics" :> PyList(topics)) @@
                       ("conversation_turns" :> PyInt(Len(msgs))))))

\* Lines 198-219: the sample, the scorer, the result.
ScoreTopicAdherence(outcome) ==
    /\ metric = "topic adherence"
    /\ eval_pc = "score"
    /\ eval_steps' = Append(eval_steps, "scorer")
    /\ IF outcome.exc # NoError
       THEN Fail(metric, outcome.exc)
       ELSE LET f == Float(outcome.score)
            IN  IF f.exc # NoError
                THEN Fail(metric, f.exc)
                ELSE /\ eval_pc' = "returned"
                     /\ eval_result' = TopicAdherenceResult(f.val,
                            eval_locals.topics, eval_locals.messages)
                     /\ UNCHANGED <<caught, eval_raised>>
    /\ UNCHANGED <<metric, metadata, ground_truth, eval_locals>>
    /\ UNCHANGED notEvalVars

\* The metadata of a topic-adherence pass.
GroundTruths ==
    { NoKeys,
      "ground_truth" :> PyNone,
      "ground_truth" :> PyDict(NoKeys),
      "ground_truth" :> PyDict("topics" :> PyList(<<>>)),
      "ground_truth" :> PyDict("topics" :> PyStr(<<>>)),
      "ground_truth" :> PyDict("topics" :> PyNone),
      "ground_truth" :> PyDict("topics" :> PyList(<<PyStr(<<"billing">>)>>)),
      "ground_truth" :> PyDict("topics" :>
                            PyList(<<PyStr(<<"billing">>), PyInt(7)>>)) }

FullTraces ==
    { NoKeys,
      "full_trace" :> PyNone,
      "full_trace" :> PyList(<<>>),
      "full_trace" :> PyList(<<RawEvent(BothSteps), RawEvent(ObservationStep)>>),
      "full_trace" :> PyList(<<TracePart(InvocationStep)>>),
      "full_trace" :> PyList(<<RawEvent(ListParametersStep)>>) }

AgentResponses == { NoKeys, "agent_response" :> PyStr(<<"done">>) }

TopicMetadata ==
    { PyDict(g @@ f @@ a) : g \in GroundTruths, f \in FullTraces,
                            a \in AgentResponses }

NextTopicAdherence ==
    \/ \E md \in TopicMetadata : EvaluateTopicAdherence(md)
    \/ ReadTopics
    \/ ConvertMessages
    \/ \E outcome \in ScorerOutcomes : ScoreTopicAdherence(outcome)

SpecTopicAdherence == Init /\ [][NextTopicAdherence]_vars

\* The ground truth of the metadata supplies no topics: it is absent, or it
\* has no topics field, or the field is empty.
NoTopicsSupplied(md) ==
    \/ "ground_truth" \notin DOMAIN md.v
    \/ /\ md.v["ground_truth"].t = "dict"
       /\ \/ "topics" \notin DOMAIN md.v["ground_truth"].v
          \/ /\ md.v["ground_truth"].v["topics"].t \in {"list", "str"}
             /\ Len(md.v["ground_truth"].v["topics"].v) = 0

\* C11: a topic-adherence pass whose ground truth supplies no topics ends by
\* raising an error to the caller; it never builds the message list, never
\* calls the scorer and returns no score.
C11_NoTopicsIsFatal ==
    (metric = "topic adherence" /\ eval_pc \notin {"idle", "topics"}
        /\ NoTopicsSupplied(metadata))
    => /\ eval_pc = "raised"
       /\ eval_raised.type = "Exception"
       /\ eval_steps = <<>>
       /\ eval_locals.messages = <<>>
       /\ eval_result = PyNone

\* C11 witness: a pass with a trace and an answer, whose ground truth has no
\* topics field, has raised the error of the missing topics.
C11_Witness ==
    /\ metric = "topic adherence"
    /\ eval_pc = "raised"
    /\ "ground_truth" \in DOMAIN metadata.v
    /\ metadata.v["ground_truth"] = PyDict(NoKeys)
    /\ "full_trace" \in DOMAIN metadata.v
    /\ metadata.v["full_trace"].t = "list"
    /\ Len(metadata.v["full_trace"].v) = 2
    /\ caught = NoTopics
    /\ eval_raised = Wrap("topic adherence", NoTopics)

(***************************************************************************)
(* extract_from_trace on a whole sequence, and both conversions on a whole *)
(* list: the loops of the actions above, run to their end.                 *)
(***************************************************************************)
RECURSIVE ExtractLoop(_, _, _)
ExtractLoop(res, events, i) ==
    IF i > Len(events) THEN [exc |-> "none", result |-> res]
    ELSE LET r == TryBody(res, events[i])
             after == [agents |-> r.agents, tool_calls |-> r.tool_calls]
         IN  IF r.exc # "none" /\ ~Caught(r.exc)
             THEN [exc |-> r.exc, result |-> after]
             ELSE ExtractLoop(after, events, i + 1)

ExtractFromTrace(events) == ExtractLoop(EmptyResult, events, 1).result

RECURSIVE AdapterLoop(_, _, _, _)
AdapterLoop(which, calls, i, out) ==
    IF i > Len(calls) THEN [exc |-> "none", calls |-> out]
    ELSE LET r == IF which = "ground_truth" THEN ConvertOne(calls[i])
                  ELSE ConvertBedrockOne(calls[i])
         IN  IF r.exc # "none" THEN [exc |-> r.exc, calls |-> out]
             ELSE AdapterLoop(which, calls, i + 1, Append(out, r.call))

\* A conversion of DeepevalHelper on a list.
Adapt(which, calls) == AdapterLoop(which, calls, 1, <<>>)

\* The report as the dict a caller puts in metadata["tool_usage"]: a record
\* of the report is a dict with the same keys.
AsDict(rec) == PyDict(rec)
UsageReport(report) ==
    PyDict(("agents" :> PyDict(report.agents))
           @@ ("tool_calls" :> PyList([i \in 1..Len(report.tool_calls) |->
                                          AsDict(report.tool_calls[i])])))

(***************************************************************************)
(* ToolCorrectnessEvaluator.evaluate_response                              *)
(***************************************************************************)
NotSubscriptable(x) ==
    Error("TypeError",
          <<"'", IF x.t = "None" THEN "NoneType" ELSE x.t,
            "' object is not subscriptable">>)

\* The exception of a conversion, with its text: the element without .get is
\* a str in every list of the model.
AdapterError(kind) ==
    IF kind = "AttributeError"
    THEN Error(kind, <<"'str' object has no attribute 'get'">>)
    ELSE Error(kind, <<"unhashable type">>)

\* Lines 120-127
NoToolCallsResult ==
    PyDict("metrics_scores" :> PyDict("tool_correctness" :>
        PyDict(("score" :> PyFloat(0)) @@
               ("explanation" :>
                    PyStr(<<"No tool calls found in the agent trace">>)))))

\* `not x` of a list or None.
Falsy(x) == x.t = "None" \/ (x.t \in {"list", "str"} /\ Len(x.v) = 0)

\* evaluate_response of the tool-correctness evaluator is called.
EvaluateToolCorrectness(md, gt) ==
    /\ eval_pc = "idle"
    /\ metric' = "tool correctness"
    /\ eval_pc' = "usage"
    /\ metadata' = md
    /\ ground_truth' = gt
    /\ UNCHANGED <<eval_locals, eval_steps, caught, eval_raised, eval_result>>
    /\ UNCHANGED notEvalVars

\* Line 119: the test of the flat list.
NoToolCalls_OnlyAbsent(tool_usage_data) ==
    "tool_calls" \notin DOMAIN tool_usage_data.v

NoToolCalls(tool_usage_data) ==
    Falsy(PyGet(tool_usage_data, "tool_calls", PyList(<<>>)))

\* Lines 117-127: the usage data; without tool calls the pass returns here.
ReadUsage ==
    /\ metric = "tool correctness"
    /\ eval_pc = "usage"
    /\ LET tool_usage_data == PyGet(metadata, "tool_usage", PyDict(NoKeys))
       IN  IF tool_usage_data.t # "dict"
           THEN Fail(metric, NoGet(tool_usage_data)) /\ UNCHANGED eval_locals
           ELSE IF NoToolCalls(tool_usage_data)
           THEN /\ eval_pc' = "returned"
                /\ eval_result' = NoToolCallsResult
                /\ eval_locals' =
                       [eval_locals EXCEPT !.tool_usage_data = tool_usage_data]
                /\ UNCHANGED <<caught, eval_raised>>
           ELSE /\ eval_pc' = "expected"
                /\ eval_locals' =
                       [eval_locals EXCEPT !.tool_usage_data = tool_usage_data]
                /\ UNCHANGED <<caught, eval_raised, eval_result>>
    /\ UNCHANGED <<metric, metadata, ground_truth, eval_steps>>
    /\ UNCHANGED notEvalVars

\* Lines 130-137: the expected calls of the ground truth and the calls of
\* the report, both converted.
ConvertToolCalls ==
    /\ metric = "tool correctness"
    /\ eval_pc = "expected"
    /\ eval_steps' = Append(eval_steps, "expected_tool_calls")
    /\ IF ground_truth.t # "dict"
       THEN Fail(metric, NotSubscriptable(ground_truth)) /\ UNCHANGED eval_locals
       ELSE IF "expected_tool_calls" \notin DOMAIN ground_truth.v
       THEN Fail(metric, KeyErrorOf("expected_tool_calls")) /\ UNCHANGED eval_locals
       ELSE LET given == ground_truth.v["expected_tool_calls"]
                expected == IF given.t # "list"
                            THEN [exc |-> "TypeError", calls |-> <<>>]
                            ELSE Adapt("ground_truth", given.v)
                actual == Adapt("bedrock",
                                eval_locals.tool_usage_data.v["tool_calls"].v)
            IN  IF given.t # "list"
                THEN Fail(metric, NotIterable(given)) /\ UNCHANGED eval_locals
                ELSE IF expected.exc # "none"
                THEN Fail(metric, AdapterError(expected.exc))
                     /\ UNCHANGED eval_locals
                ELSE IF actual.exc # "none"
                THEN Fail(metric, AdapterError(actual.exc))
                     /\ eval_locals' = [eval_locals EXCEPT
                                           !.expected_tool_calls = expected.calls]
                ELSE /\ eval_locals' = [eval_locals EXCEPT
                                           !.expected_tool_calls = expected.calls,
                                           !.actual_tool_calls = actual.calls]
                     /\ eval_pc' = "measure"
                     /\ UNCHANGED <<caught, eval_raised, eval_result>>
    /\ UNCHANGED <<metric, metadata, ground_truth>>
    /\ UNCHANGED notEvalVars

\* What the scoring library does with a test case.
Measured(score, reason) == [exc |-> NoError, score |-> score, reason |-> reason]
MetricFails ==
    [exc |-> Error("RuntimeError", <<"metric failed">>), score |-> PyNone,
     reason |-> PyNone]
MetricOutcomes ==
    { Measured(PyFloat(1), PyStr(<<"all expected tools called">>)),
      Measured(PyFloat(0), PyNone),
      Measured(PyInt(1), PyStr(<<>>)),
      Measured(PyNone, PyNone),
      MetricFails }

\* Lines 155-163: the entry of one agent.  list(set(...)) keeps each name
\* once, in an order the interpreter chooses: the names are kept as a set.
AgentName(agent_id, agent_data) ==
    IF "agent_name" \in DOMAIN agent_data THEN agent_data.agent_name
    ELSE PyStr(<<"Agent-">> \o Format(agent_id))

AgentMetric(agent_data) ==
    LET calls == IF "tool_calls" \in DOMAIN agent_data
                 THEN agent_data.tool_calls ELSE <<>>
    IN  [tool_calls_count |-> Len(calls),
         tools_used |-> { calls[i].tool_name : i \in 1..Len(calls) }]

\* Lines 166-175
Explanation(reason, tool_usage_data) ==
    IF reason.t = "str" /\ Len(reason.v) > 0 THEN reason
    ELSE PyStr(<<"Tool correctness score across ",
                 ToString(Len(tool_usage_data.v["tool_calls"].v)),
                 " tool calls">>)

ToolCorrectnessResult(score, reason, agent_metrics, tool_usage_data) ==
    PyDict(("metrics_scores" :> PyDict("tool_correctness" :>
                PyDict(("score" :> score) @@
                       ("explanation" :> Explanation(reason, tool_usage_data)))))
           @@ ("agent_metrics" :> PyDict(agent_metrics))
           @@ ("tool_usage_data" :> tool_usage_data))

\* Lines 139-175: the test case, the metric, the entries of the agents (an
\* agent name met twice keeps the entry of the agent met last; the report
\* of the model keeps no order of the agents, so either may stay), the
\* result.
Measure(outcome) ==
    /\ metric = "tool correctness"
    /\ eval_pc = "measure"
    /\ eval_steps' = Append(eval_steps, "metric")
    /\ LET tool_usage_data == eval_locals.tool_usage_data
           agents == PyGet(tool_usage_data, "agents", PyDict(NoKeys))
           f == Float(outcome.score)
       IN  IF outcome.exc # NoError THEN Fail(metric, outcome.exc)
           ELSE IF f.exc # NoError THEN Fail(metric, f.exc)
           ELSE LET ids == DOMAIN agents.v
                    names == { AgentName(a, agents.v[a]) : a \in ids }
                IN  \E last \in [names -> ids] :
                        /\ \A n \in names : AgentName(last[n], agents.v[last[n]]) = n
                        /\ eval_pc' = "returned"
                        /\ eval_result' = ToolCorrectnessResult(f.val, outcome.reason,
                               [n \in names |-> AgentMetric(agents.v[last[n]])],
                               tool_usage_data)
                        /\ UNCHANGED <<caught, eval_raised>>
    /\ UNCHANGED <<metric, metadata, ground_truth, eval_locals>>
    /\ UNCHANGED notEvalVars

\* The metadata and the ground truth of a tool-correctness pass: reports of
\* extract_from_trace, a hand-written report in the format that
\* convert_bedrock_format_to_deepeval_tool_calls documents, and metadata
\* without a report or without its flat list.
PingInput == PyDict("function" :> PyStr(<<"ping">>))

PingOf(agent_id) == PyDict(("agentId" :> agent_id) @@ Invocation(PingInput))

ExtractedReports ==
    { UsageReport(ExtractFromTrace(events)) : events \in
        { <<>>,
          << PyDict("agentId" :> AgentA) >>,
          << PingOf(AgentA) >>,
          << PingOf(AgentA), PingOf(AgentB), PingOf(AgentA) >>,
          << PyDict(("agentId" :> AgentA) @@ Invocation(FunctionInput)) >>,
          << PingOf(AgentA), PyDict(Invocation(PathInput)) >> } }

DocumentedReport ==
    PyDict("tool_calls" :> PyList(<<
        PyDict(("tool_name" :> PyStr(<<"search">>))
               @@ ("parameters" :> PyList(<<Triple("q", "x")>>))) >>))

ToolUsages ==
    { NoKeys,
      "tool_usage" :> PyNone,
      "tool_usage" :> PyDict(NoKeys),
      "tool_usage" :> PyDict("tool_calls" :> PyNone),
      "tool_usage" :> DocumentedReport }
    \cup { "tool_usage" :> r : r \in ExtractedReports }

ToolMetadata == { PyDict(u) : u \in ToolUsages }

ExpectedGroundTruths ==
    { PyNone,
      PyDict(NoKeys),
      PyDict("expected_tool_calls" :> PyList(<<>>)),
      PyDict("expected_tool_calls" :>
                 PyList(<<PyDict("tool_name" :> PyStr(<<"ping">>))>>)),
      PyDict("expected_tool_calls" :> PyList(<<PyStr(<<"ping">>)>>)) }

NextToolCorrectness ==
    \/ \E md \in ToolMetadata, gt \in ExpectedGroundTruths :
           EvaluateToolCorrectness(md, gt)
    \/ ReadUsage
    \/ ConvertToolCalls
    \/ \E outcome \in MetricOutcomes : Measure(outcome)

NextEvaluate == NextTopicAdherence \/ NextToolCorrectness

SpecEvaluate == Init /\ [][NextEvaluate]_vars

\* The text msg has the text part in it.
Contains(msg, part) ==
    \E i \in 1..(Len(msg) - Len(part) + 1) :
        SubSeq(msg, i, i + Len(part) - 1) = part

\* C12: an exception raised inside a scoring pass of either evaluator ends
\* the pass with an error raised to the caller, whose message names the
\* metric and contains the message of the original exception; a pass that
\* met an exception returns no result, and a pass that returned met none.
C12_PassErrorsAreRaised ==
    /\ caught # NoError =>
           /\ eval_pc = "raised"
           /\ eval_result = PyNone
           /\ eval_raised # NoError
           /\ Contains(eval_raised.message, <<metric>>)
           /\ Contains(eval_raised.message, caught.message)
    /\ eval_pc = "returned" => (caught = NoError /\ eval_raised = NoError)

\* C12 witness: the scorer of a topic-adherence pass failed after the
\* messages were built, and the pass raised.
C12_Witness ==
    /\ metric = "topic adherence"
    /\ eval_pc = "raised"
    /\ eval_steps = <<"convert", "scorer">>
    /\ caught = ScorerFails.exc
    /\ eval_raised.message =
           <<"Error evaluating ", "topic adherence", ": ", "scorer failed">>

\* The flat tool-call list of the metadata, absent when the report or its
\* list is absent.
FlatList(md) ==
    IF "tool_usage" \notin DOMAIN md.v THEN PyNone
    ELSE IF md.v["tool_usage"].t # "dict" THEN md.v["tool_usage"]
    ELSE IF "tool_calls" \notin DOMAIN md.v["tool_usage"].v THEN PyNone
    ELSE md.v["tool_usage"].v["tool_calls"]

EmptyOrAbsent(md) ==
    /\ "tool_usage" \in DOMAIN md.v => md.v["tool_usage"].t = "dict"
    /\ FlatList(md) \in {PyNone, PyList(<<>>)}

\* C20: a tool-correctness pass whose flat tool-call list is empty or absent
\* returns score 0.0 with the explanation "No tool calls found in the agent
\* trace", having read no expected tool call and called no metric; the
\* metric is called only when the flat list has at least one tool call.
C20_NoToolCallsScoresZero ==
    (metric = "tool correctness" /\ eval_pc \notin {"idle", "usage"}) =>
        /\ EmptyOrAbsent(metadata) =>
               /\ eval_pc = "returned"
               /\ eval_steps = <<>>
               /\ eval_result.v["metrics_scores"].v["tool_correctness"] =
                      PyDict(("score" :> PyFloat(0)) @@
                             ("explanation" :>
                                 PyStr(<<"No tool calls found in the agent trace">>)))
               /\ DOMAIN eval_result.v = {"metrics_scores"}
        /\ (\E i \in 1..Len(eval_steps) : eval_steps[i] = "metric") =>
               /\ FlatList(metadata).t = "list"
               /\ Len(FlatList(metadata).v) >= 1

\* C20 witness: a pass on the report of a trace that has an agent and no
\* tool call returned the zero score.
C20_Witness ==
    /\ metric = "tool correctness"
    /\ eval_pc = "returned"
    /\ "tool_usage" \in DOMAIN metadata.v
    /\ metadata.v["tool_usage"] =
           UsageReport(ExtractFromTrace(<< PyDict("agentId" :> AgentA) >>))
    /\ ground_truth.t = "dict"
    /\ "expected_tool_calls" \in DOMAIN ground_truth.v
    /\ eval_result = NoToolCallsResult

(***************************************************************************)
(* Two extract_from_trace calls on one ToolUsageExtractor, one turn of a   *)
(* loop at a time.  __init__ stores nothing on the instance; line 21 of    *)
(* each call creates a new dict, kept here in heap, and `result` of the    *)
(* call refers to it.                                                      *)
(***************************************************************************)
\* The report kept on the instance, created once.
NewReport_OnInstance(h) ==
    IF Len(h) = 0 THEN [heap |-> <<EmptyResult>>, ref |-> 1]
    ELSE [heap |-> h, ref |-> 1]

\* Line 21: result = {"agents": {}, "tool_calls": []}
NewReport(h) == [heap |-> Append(h, EmptyResult), ref |-> Len(h) + 1]

CallEvents ==
    { PyDict(("agentId" :> AgentA) @@ Invocation(FunctionInput)),
      PyDict(("agentId" :> AgentB) @@ ("collaboratorName" :> PyStr(<<"Bob">>))
             @@ Invocation(PathInput)),
      PyDict(("callerChain" :> CallerChain(PyStr(<<"arn", "/", "A", "/", "al2">>)))
             @@ Invocation(PingInput)),
      PyDict(("agentId" :> AgentA) @@ ("callerChain" :> PyList(<<PyNone>>))
             @@ Invocation(FunctionInput)),
      PyNone }

CallStart(c) ==
    /\ call_status[c] = "idle"
    /\ LET new == NewReport(heap)
       IN  /\ heap' = new.heap
           /\ call_ref' = [call_ref EXCEPT ![c] = new.ref]
    /\ call_status' = [call_status EXCEPT ![c] = "running"]
    /\ UNCHANGED call_events
    /\ UNCHANGED notCallVars

\* Lines 23-103 for one event of call c.
CallProcessEvent(c, e) ==
    /\ call_status[c] = "running"
    /\ Len(call_events[c]) < MaxEvents
    /\ call_events' = [call_events EXCEPT ![c] = Append(@, e)]
    /\ LET r == TryBody(heap[call_ref[c]], e)
       IN  heap' = [heap EXCEPT ![call_ref[c]] =
                        [agents |-> r.agents, tool_calls |-> r.tool_calls]]
    /\ UNCHANGED <<call_ref, call_status>>
    /\ UNCHANGED notCallVars

\* Line 105
CallReturn(c) ==
    /\ call_status[c] = "running"
    /\ call_status' = [call_status EXCEPT ![c] = "returned"]
    /\ UNCHANGED <<heap, call_ref, call_events>>
    /\ UNCHANGED notCallVars

NextCalls ==
    \E c \in Calls :
        \/ CallStart(c)
        \/ \E e \in CallEvents : CallProcessEvent(c, e)
        \/ CallReturn(c)

SpecCalls == Init /\ [][NextCalls]_vars

\* The report of call c.
ReportOf(c) == heap[call_ref[c]]

\* C13: whatever the interleaving of two extract_from_trace calls on one
\* extractor, each call's report is the report of its own events alone: the
\* two calls build different report objects, and nothing that the other
\* call saw is in a call's report.
C13_CallsShareNoState ==
    \A c \in Calls :
        call_status[c] # "idle" =>
            /\ ReportOf(c) = ExtractFromTrace(call_events[c])
            /\ \A d \in Calls \ {c} :
                   call_status[d] # "idle" => call_ref[d] # call_ref[c]

\* C13 witness: the two calls ran interleaved and returned; the first saw a
\* tool call of agent A, the second only one of agent B.
C13_Witness ==
    /\ call_status = [c \in Calls |-> "returned"]
    /\ Len(call_events[1]) = 2
    /\ Len(call_events[2]) = 1
    /\ Len(ReportOf(1).tool_calls) = 2
    /\ AgentA \in DOMAIN ReportOf(1).agents
    /\ DOMAIN ReportOf(2).agents = {AgentB}
    /\ Len(ReportOf(2).tool_calls) = 1

(***************************************************************************)
(* ToolUsageExtractor.extract_from_response: the trace values of the       *)
(* completion stream, then extract_from_trace on them.                     *)
(***************************************************************************)
\* Lines 121-122: what one completion event adds to trace_events, or the
\* exception of the test or of the subscript (outside any try block).
Project_WholeEvent(event) ==
    IF ~CanContain(event) THEN [exc |-> "TypeError", add |-> <<>>]
    ELSE IF ~PyIn("trace", event) THEN [exc |-> "none", add |-> <<>>]
    ELSE IF event.t # "dict" THEN [exc |-> "TypeError", add |-> <<>>]
    ELSE [exc |-> "none", add |-> <<event>>]

Project(event) ==
    IF ~CanContain(event) THEN [exc |-> "TypeError", add |-> <<>>]
    ELSE IF ~PyIn("trace", event) THEN [exc |-> "none", add |-> <<>>]
    ELSE IF event.t # "dict" THEN [exc |-> "TypeError", add |-> <<>>]
    ELSE [exc |-> "none", add |-> <<event.v["trace"]>>]

ResponseEvents ==
    { Chunk("answer"),
      PyDict("returnControl" :> PyDict(NoKeys)),
      PyDict("trace" :> PyDict(("agentId" :> AgentA) @@ Invocation(FunctionInput))),
      PyDict("trace" :> PyDict(("agentId" :> AgentB) @@ Invocation(PathInput))),
      PyDict("trace" :> PyDict(("agentId" :> AgentA)
                               @@ ("callerChain" :> PyList(<<PyNone>>))
                               @@ Invocation(PingInput))),
      PyDict("trace" :> PyNone),
      PyNone }

\* Lines 117-125 on a response without "completion".
NoCompletion ==
    /\ response_pc = "idle"
    /\ response_pc' = "returned"
    /\ response_result' = ExtractFromTrace(projected)
    /\ UNCHANGED <<completion, projected>>
    /\ UNCHANGED notResponseVars

\* Lines 117-120 on a response with "completion".
WithCompletion ==
    /\ response_pc = "idle"
    /\ response_pc' = "filtering"
    /\ UNCHANGED <<completion, projected, response_result>>
    /\ UNCHANGED notResponseVars

\* Lines 120-122: one event of the stream.
FilterEvent(event) ==
    /\ response_pc = "filtering"
    /\ Len(completion) < MaxStream
    /\ completion' = Append(completion, event)
    /\ LET r == Project(event)
       IN  IF r.exc # "none"
           THEN response_pc' = "raised" /\ UNCHANGED projected
           ELSE projected' = projected \o r.add /\ UNCHANGED response_pc
    /\ UNCHANGED response_result
    /\ UNCHANGED notResponseVars

\* Line 125
Delegate ==
    /\ response_pc = "filtering"
    /\ response_pc' = "returned"
    /\ response_result' = ExtractFromTrace(projected)
    /\ UNCHANGED <<completion, projected>>
    /\ UNCHANGED notResponseVars

NextResponse ==
    \/ NoCompletion
    \/ WithCompletion
    \/ \E event \in ResponseEvents : FilterEvent(event)
    \/ Delegate

SpecResponse == Init /\ [][NextResponse]_vars

\* The trace values of the events of a stream that have a "trace" key, in
\* their order.
RECURSIVE TraceValues(_)
TraceValues(events) ==
    IF events = <<>> THEN <<>>
    ELSE LET e == Head(events)
         IN  (IF e.t = "dict" /\ "trace" \in DOMAIN e.v THEN <<e.v["trace"]>>
              ELSE <<>>) \o TraceValues(Tail(events))

\* C14: the report that extract_from_response returns is the report of
\* extract_from_trace on the trace values of the completion events that
\* have a "trace" key, in their order; without "completion" it is the empty
\* report.
C14_ResponseIsProjection ==
    response_pc = "returned" =>
        /\ response_result = ExtractFromTrace(TraceValues(completion))
        /\ completion = <<>> => response_result = EmptyResult

\* C14 witness: a stream of a chunk between two trace events gave the report
\* of the two trace values.
C14_Witness ==
    /\ response_pc = "returned"
    /\ Len(completion) = 3
    /\ completion[2] = Chunk("answer")
    /\ Len(TraceValues(completion)) = 2
    /\ Len(response_result.tool_calls) = 2
    /\ DOMAIN response_result.agents = {AgentA, AgentB}

(***************************************************************************)
(* The extractor followed by the adapter, as evaluate_response of the      *)
(* tool-correctness evaluator chains them (lines 133-137): the report of   *)
(* extract_from_trace, then convert_bedrock_format_to_deepeval_tool_calls  *)
(* on its flat list.                                                       *)
(***************************************************************************)
\* The conversion is called on the flat list of the returned report.
AdaptReport ==
    /\ status = "returned"
    /\ AdapterStart("bedrock")

\* The next record of the flat list.
AdaptNext ==
    /\ status = "returned"
    /\ Len(tool_calls) < Len(result.tool_calls)
    /\ AdapterStep(AsDict(result.tool_calls[Len(tool_calls) + 1]))

\* The flat list is exhausted.
AdaptReturn ==
    /\ status = "returned"
    /\ Len(tool_calls) = Len(result.tool_calls)
    /\ AdapterReturn

NextPipeline ==
    \/ \E e \in Events : ProcessEvent(e)
    \/ Return
    \/ AdaptReport
    \/ AdaptNext
    \/ AdaptReturn

SpecPipeline == Init /\ [][NextPipeline]_vars

\* The parameters of a function-shape event and the requestBody of a
\* path-shape event are mappings, or absent.
MappingPayload(e) ==
    LET a == InvocationInputOf(e)
        key == IF FunctionShape(e) THEN "parameters" ELSE "requestBody"
    IN  key \in DOMAIN a.v => a.v[key].t = "dict"

\* C15: for a report built from events whose function-shape and path-shape
\* inputs carry mappings, the Bedrock conversion of the flat list raises no
\* error and returns one call object per flat tool call, in order, with the
\* same tool name.
C15_PipelineCompletes ==
    (/\ status = "returned"
     /\ adapter = "bedrock"
     /\ \A i \in 1..Len(trace_events) :
            Qualifying(trace_events[i]) => MappingPayload(trace_events[i]))
    =>  /\ adapter_status # "raised"
        /\ adapter_status = "returned" =>
               /\ Len(deepeval_tool_calls) = Len(result.tool_calls)
               /\ \A i \in 1..Len(result.tool_calls) :
                      deepeval_tool_calls[i].name = result.tool_calls[i].tool_name

(***************************************************************************)
(* invoke_agent followed by _convert_trace_to_messages on the full_trace   *)
(* and the answer it returned, as the topic-adherence pass chains them.    *)
(***************************************************************************)
ConvertFullTrace ==
    /\ pc = "returned"
    /\ convert_status = "idle"
    /\ convert_trace' = full_trace
    /\ convert_answer' = agent_answer
    /\ LET r == ConvertTraceToMessages(full_trace, agent_answer)
       IN  /\ messages' = r.msgs
           /\ convert_status' = IF r.exc = NoException THEN "returned" ELSE "raised"
    /\ UNCHANGED notConvertVars

NextInvokeConvert == NextInvoke \/ ConvertFullTrace

SpecInvokeConvert == Init /\ [][NextInvokeConvert]_vars

ObservationKeys ==
    <<"trace", "orchestrationTrace", "observation", "actionGroupInvocationOutput">>

\* The number of elements of trace that carry the keys.
RECURSIVE Carrying(_, _)
Carrying(trace, keys) ==
    IF trace = <<>> THEN 0
    ELSE (IF HasKeyPath(Head(trace), keys) THEN 1 ELSE 0)
         + Carrying(Tail(trace), keys)

\* C16: on the full_trace that invoke_agent returned,
\* _convert_trace_to_messages raises nothing and returns the human message,
\* one assistant message per element with an actionGroupInvocationInput,
\* one tool message per element with an actionGroupInvocationOutput, and
\* the answer when it is non-empty.
C16_ConvertsOwnTrace ==
    (pc = "returned" /\ convert_status # "idle") =>
        /\ convert_status = "returned"
        /\ Len(messages) =
               1 + Carrying(full_trace, InvocationKeys)
                 + Carrying(full_trace, ObservationKeys)
                 + (IF agent_answer.t = "str" /\ Len(agent_answer.v) > 0
                    THEN 1 ELSE 0)

\* C17: the attempt counter of a remote call never exceeds max_retries, and
\* one top-level call makes at most max_retries remote calls.
C17_AtMostMaxRetriesAttempts ==
    /\ tries <= max_retries
    /\ Len(attempts) <= max_retries

\* The current attempt ends in this step with an exception that is no
\* throttling error.
FailsNow ==
    /\ pc \in {"invoking", "streaming"}
    /\ Len(attempts') >= 1
    /\ attempts'[Len(attempts')] = "failed"

\* C18: an exception other than a throttling error, of the remote call or
\* of reading the stream, is raised to the caller in the step where it
\* occurs, on a first attempt as on a retry: no wait is set, and once
\* raised no further remote call is made.
C18_OnlyThrottlingIsRetried ==
    /\ [][FailsNow => /\ pc' = "raised"
                      /\ raised' # NoException
                      /\ ~(raised'.response /\ raised'.code = "throttlingException")
                      /\ wait_time' = wait_time]_vars
    /\ [][pc = "raised" => (pc' = "raised" /\ attempts' = attempts
                            /\ raised' = raised)]_vars
    /\ [](pc = "sleeping" => attempts[Len(attempts)] = "throttled")

\* C18 witness: the first attempt was throttled and retried; the retry
\* failed with another error while its stream was read, and that error was
\* raised with the wait of the first attempt still the last one.
C18_Witness ==
    /\ pc = "raised"
    /\ attempts = <<"throttled", "failed">>
    /\ tries = 2
    /\ consumed >= 1
    /\ raised = AccessDenied
    /\ wait_time = WaitTime(1)

\* The events of the sequence whose processing did not raise, in order.
RECURSIVE Completed(_)
Completed(i) ==
    IF i > Len(trace_events) THEN <<>>
    ELSE (IF i \in logged THEN <<>> ELSE <<trace_events[i]>>) \o Completed(i + 1)

C21_AttributionComplete ==
    /\ \A id \in DOMAIN result.agents :
           id # Unknown =>
               result.agents[id].tool_calls = CallsOfAgent(result.tool_calls, id)
    /\ \A i \in 1..Len(result.tool_calls) :
           LET call == result.tool_calls[i]
           IN  call.agent_id # Unknown =>
                   /\ call.agent_id \in DOMAIN result.agents
                   /\ \E j \in 1..Len(result.agents[call.agent_id].tool_calls) :
                          result.agents[call.agent_id].tool_calls[j]
                              = WithoutAgent(call)

\* C21 witness: a tool call of agent A, known also to a caller chain that
\* names agent B, then a tool call of an event without agentId; A's list
\* has the first call, B's list is empty, the second call is of "unknown"
\* and in no list.
C21_Witness ==
    /\ status = "returned"
    /\ Len(result.tool_calls) = 2
    /\ result.tool_calls[1].agent_id = AgentA
    /\ result.tool_calls[2].agent_id = Unknown
    /\ DOMAIN result.agents = {AgentA, AgentB}
    /\ Len(result.agents[AgentA].tool_calls) = 1
    /\ Len(result.agents[AgentB].tool_calls) = 0

\* The answer, the usage and the trace that a completion stream read to its
\* end, alone, stands for.
RECURSIVE AnswerOf(_)
AnswerOf(events) ==
    IF events = <<>> THEN PyNone
    ELSE LET e == events[Len(events)]
         IN  IF "chunk" \in DOMAIN e.v
             THEN PyStr(e.v["chunk"].v["bytes"].v)
             ELSE AnswerOf(SubSeq(events, 1, Len(events) - 1))

UsageOfEvent(e, key) ==
    IF /\ "chunk" \notin DOMAIN e.v
       /\ HasKeyPath(e, <<"trace", "trace", "orchestrationTrace",
                          "modelInvocationOutput", "metadata", "usage", key>>)
    THEN e.v["trace"].v["trace"].v["orchestrationTrace"]
          .v["modelInvocationOutput"].v["metadata"].v["usage"].v[key].v
    ELSE 0

RECURSIVE UsageOf(_, _)
UsageOf(events, key) ==
    IF events = <<>> THEN 0
    ELSE UsageOfEvent(Head(events), key) + UsageOf(Tail(events), key)

\* C22: what invoke_agent returns is what the completion stream of the
\* attempt that succeeded stands for, whatever the earlier attempts read
\* before they were throttled: full_trace is the trace values of that
\* stream, agent_answer its last chunk or None, the token counters the sums
\* of its usage, and the returned dict carries these same values.
C22_NoResidue ==
    pc = "returned" =>
        /\ full_trace = TraceValues(stream)
        /\ agent_answer = AnswerOf(stream)
        /\ input_tokens = UsageOf(stream, "inputTokens")
        /\ output_tokens = UsageOf(stream, "outputTokens")
        /\ processed_response.v["full_trace"] = PyList(TraceValues(stream))
        /\ processed_response.v["agent_answer"] = AnswerOf(stream)
        /\ processed_response.v["input_tokens"]
               = PyInt(UsageOf(stream, "inputTokens"))
        /\ processed_response.v["output_tokens"]
               = PyInt(UsageOf(stream, "outputTokens"))

\* C22 witness: the first attempt read a chunk and a trace with usage and
\* was throttled, the second read one trace without usage and returned it
\* alone, with no answer and no tokens.
C22_Witness ==
    /\ pc = "returned"
    /\ attempts = <<"throttled", "returned">>
    /\ Chunk("answer") \in discarded
    /\ PyDict("trace" :> TracePart(ModelOutput(2, 1))) \in discarded
    /\ stream = <<PyDict("trace" :> TracePart(ObservationStep))>>
    /\ full_trace = <<TracePart(ObservationStep)>>
    /\ agent_answer = PyNone
    /\ input_tokens = 0
    /\ output_tokens = 0
====
